---- MODULE Spec2Model ----
(***************************************************************************)
(* Model of the assignment and route optimisation service of the           *)
(* repository (src/assign_locations.py), with the upload of employees.json *)
(* and the availability filter of src/admin.py and the creation of tickets *)
(* of src/customers_api.py.                                                *)
(*                                                                         *)
(* Python values are records [t, s]: t is the Python type ("str", "none"), *)
(* s is the text of a str as the sequence of its code points.  A float is  *)
(* the exact integer x * 2^62 in four limbs of twenty bits; a distance     *)
(* that round(total, 2) returned is its number of hundredths.              *)
(*                                                                         *)
(* The handlers run in threads without a lock on the data files: a handler *)
(* of an endpoint reads customers_data.json and, in a later step,          *)
(* employees.json; an upload opens employees.json.tmp, writes it and       *)
(* renames it in three steps.  A file is what its name points to: a        *)
(* descriptor follows the file through a rename.  Of the candidate paths   *)
(* of load_json_candidates only backend/customers_data.json and            *)
(* employees.json beside the module exist.                                 *)
(***************************************************************************)
EXTENDS Integers, Sequences, FiniteSets, TLC

VARIABLES GEOCACHE, employees, customers, assignments,
          locations, depot, route, distance,
          request, response, pc,
          candidates, file_lock, threads,
          data, uploads, disk

vars == <<GEOCACHE, employees, customers, assignments,
          locations, depot, route, distance, request, response, pc,
          candidates, file_lock, threads, data, uploads, disk>>

----------------------------------------------------------------------------
(* Bounds of the model *)

MaxEmps == 2

MaxTickets == 2

MaxLocs == 4

MaxRequests == 2

MaxStored == 2

MaxUploads == 2

----------------------------------------------------------------------------
(* Python values and the str methods the code uses *)

None == [t |-> "none", s |-> <<>>]

\* A str: its text is the sequence of the code points of its characters
Str(chars) == [t |-> "str", s |-> chars]

\* The printable ASCII characters in code point order, from the space on; the
\* places of the double quote (34), the backslash (92) and the backquote (96)
\* are left empty
AsciiChars ==
    <<" ","!","","#","$","%","&","'","(",")","*","+",",","-",".","/",
      "0","1","2","3","4","5","6","7","8","9",":",";","<","=",">","?",
      "@","A","B","C","D","E","F","G","H","I","J","K","L","M","N","O",
      "P","Q","R","S","T","U","V","W","X","Y","Z","[","","]","^","_",
      "","a","b","c","d","e","f","g","h","i","j","k","l","m","n","o",
      "p","q","r","s","t","u","v","w","x","y","z","{","|","}","~">>

\* ord(c) for an ASCII character written as a one-character string
ord(c) ==
    CASE c = "\t" -> 9
      [] c = "\n" -> 10
      [] c = "\r" -> 13
      [] OTHER -> 31 + CHOOSE i \in 1..Len(AsciiChars) : AsciiChars[i] = c

\* The text of a str literal of ASCII characters
Text(q) == [i \in 1..Len(q) |-> ord(q[i])]

\* A str literal of ASCII characters
StrLit(q) == Str(Text(q))

\* The characters str.strip() removes: \t \n \v \f \r, the separators
\* \x1c-\x1f, the space, \x85, \xa0 and the Unicode spaces
Whitespace ==
    (9..13) \cup (28..32) \cup {133, 160, 5760} \cup (8192..8202)
    \cup {8232, 8233, 8239, 8287, 12288}

NoneText == Text(<<"N","o","n","e">>)

\* str(v): the text of a str is itself, str(None) is "None"
py_str(v) == IF v.t = "none" THEN NoneText ELSE v.s

\* bool(v): None and the empty str are falsy
py_truthy(v) == v.t # "none" /\ v.s # <<>>

\* c lies in one of the ranges <<first, last, ...>> of rs
in_ranges(c, rs) == \E i \in 1..Len(rs) : rs[i][1] <= c /\ c <= rs[i][2]

\* str.lower() beyond ASCII (Unicode 14.0): <<first, last, step, offset>>
\* maps every step-th code point c of first..last to c + offset
LowerRanges ==
    <<<<192,214,1,32>>, <<216,222,1,32>>, <<256,302,2,1>>, <<306,310,2,1>>,
      <<313,327,2,1>>, <<330,374,2,1>>, <<376,376,1,-121>>, <<377,381,2,1>>,
      <<385,385,1,210>>, <<386,388,2,1>>, <<390,390,1,206>>, <<391,391,1,1>>,
      <<393,394,1,205>>, <<395,395,1,1>>, <<398,398,1,79>>,
      <<399,399,1,202>>, <<400,400,1,203>>, <<401,401,1,1>>,
      <<403,403,1,205>>, <<404,404,1,207>>, <<406,406,1,211>>,
      <<407,407,1,209>>, <<408,408,1,1>>, <<412,412,1,211>>,
      <<413,413,1,213>>, <<415,415,1,214>>, <<416,420,2,1>>,
      <<422,422,1,218>>, <<423,423,1,1>>, <<425,425,1,218>>, <<428,428,1,1>>,
      <<430,430,1,218>>, <<431,431,1,1>>, <<433,434,1,217>>, <<435,437,2,1>>,
      <<439,439,1,219>>, <<440,440,1,1>>, <<444,444,1,1>>, <<452,452,1,2>>,
      <<453,453,1,1>>, <<455,455,1,2>>, <<456,456,1,1>>, <<458,458,1,2>>,
      <<459,475,2,1>>, <<478,494,2,1>>, <<497,497,1,2>>, <<498,500,2,1>>,
      <<502,502,1,-97>>, <<503,503,1,-56>>, <<504,542,2,1>>,
      <<544,544,1,-130>>, <<546,562,2,1>>, <<570,570,1,10795>>,
      <<571,571,1,1>>, <<573,573,1,-163>>, <<574,574,1,10792>>,
      <<577,577,1,1>>, <<579,579,1,-195>>, <<580,580,1,69>>,
      <<581,581,1,71>>, <<582,590,2,1>>, <<880,882,2,1>>, <<886,886,1,1>>,
      <<895,895,1,116>>, <<902,902,1,38>>, <<904,906,1,37>>,
      <<908,908,1,64>>, <<910,911,1,63>>, <<913,929,1,32>>, <<931,939,1,32>>,
      <<975,975,1,8>>, <<984,1006,2,1>>, <<1012,1012,1,-60>>,
      <<1015,1015,1,1>>, <<1017,1017,1,-7>>, <<1018,1018,1,1>>,
      <<1021,1023,1,-130>>, <<1024,1039,1,80>>, <<1040,1071,1,32>>,
      <<1120,1152,2,1>>, <<1162,1214,2,1>>, <<1216,1216,1,15>>,
      <<1217,1229,2,1>>, <<1232,1326,2,1>>, <<1329,1366,1,48>>,
      <<4256,4293,1,7264>>, <<4295,4295,1,7264>>, <<4301,4301,1,7264>>,
      <<5024,5103,1,38864>>, <<5104,5109,1,8>>, <<7312,7354,1,-3008>>,
      <<7357,7359,1,-3008>>, <<7680,7828,2,1>>, <<7838,7838,1,-7615>>,
      <<7840,7934,2,1>>, <<7944,7951,1,-8>>, <<7960,7965,1,-8>>,
      <<7976,7983,1,-8>>, <<7992,7999,1,-8>>, <<8008,8013,1,-8>>,
      <<8025,8031,2,-8>>, <<8040,8047,1,-8>>, <<8072,8079,1,-8>>,
      <<8088,8095,1,-8>>, <<8104,8111,1,-8>>, <<8120,8121,1,-8>>,
      <<8122,8123,1,-74>>, <<8124,8124,1,-9>>, <<8136,8139,1,-86>>,
      <<8140,8140,1,-9>>, <<8152,8153,1,-8>>, <<8154,8155,1,-100>>,
      <<8168,8169,1,-8>>, <<8170,8171,1,-112>>, <<8172,8172,1,-7>>,
      <<8184,8185,1,-128>>, <<8186,8187,1,-126>>, <<8188,8188,1,-9>>,
      <<8486,8486,1,-7517>>, <<8490,8490,1,-8383>>, <<8491,8491,1,-8262>>,
      <<8498,8498,1,28>>, <<8544,8559,1,16>>, <<8579,8579,1,1>>,
      <<9398,9423,1,26>>, <<11264,11311,1,48>>, <<11360,11360,1,1>>,
      <<11362,11362,1,-10743>>, <<11363,11363,1,-3814>>,
      <<11364,11364,1,-10727>>, <<11367,11371,2,1>>,
      <<11373,11373,1,-10780>>, <<11374,11374,1,-10749>>,
      <<11375,11375,1,-10783>>, <<11376,11376,1,-10782>>,
      <<11378,11378,1,1>>, <<11381,11381,1,1>>, <<11390,11391,1,-10815>>,
      <<11392,11490,2,1>>, <<11499,11501,2,1>>, <<11506,11506,1,1>>,
      <<42560,42604,2,1>>, <<42624,42650,2,1>>, <<42786,42798,2,1>>,
      <<42802,42862,2,1>>, <<42873,42875,2,1>>, <<42877,42877,1,-35332>>,
      <<42878,42886,2,1>>, <<42891,42891,1,1>>, <<42893,42893,1,-42280>>,
      <<42896,42898,2,1>>, <<42902,42920,2,1>>, <<42922,42922,1,-42308>>,
      <<42923,42923,1,-42319>>, <<42924,42924,1,-42315>>,
      <<42925,42925,1,-42305>>, <<42926,42926,1,-42308>>,
      <<42928,42928,1,-42258>>, <<42929,42929,1,-42282>>,
      <<42930,42930,1,-42261>>, <<42931,42931,1,928>>, <<42932,42946,2,1>>,
      <<42948,42948,1,-48>>, <<42949,42949,1,-42307>>,
      <<42950,42950,1,-35384>>, <<42951,42953,2,1>>, <<42960,42960,1,1>>,
      <<42966,42968,2,1>>, <<42997,42997,1,1>>, <<65313,65338,1,32>>,
      <<66560,66599,1,40>>, <<66736,66771,1,40>>, <<66928,66938,1,39>>,
      <<66940,66954,1,39>>, <<66956,66962,1,39>>, <<66964,66965,1,39>>,
      <<68736,68786,1,64>>, <<71840,71871,1,32>>, <<93760,93791,1,32>>,
      <<125184,125217,1,34>>>>


\* Code points that are cased and not case-ignorable: <<first, last>>
CasedRanges ==
    <<<<65,90>>, <<97,122>>, <<170,170>>, <<181,181>>, <<186,186>>,
      <<192,214>>, <<216,246>>, <<248,442>>, <<444,447>>, <<452,659>>,
      <<661,687>>, <<880,883>>, <<886,887>>, <<891,893>>, <<895,895>>,
      <<902,902>>, <<904,906>>, <<908,908>>, <<910,929>>, <<931,1013>>,
      <<1015,1153>>, <<1162,1327>>, <<1329,1366>>, <<1376,1416>>,
      <<4256,4293>>, <<4295,4295>>, <<4301,4301>>, <<4304,4346>>,
      <<4349,4351>>, <<5024,5109>>, <<5112,5117>>, <<7296,7304>>,
      <<7312,7354>>, <<7357,7359>>, <<7424,7467>>, <<7531,7543>>,
      <<7545,7578>>, <<7680,7957>>, <<7960,7965>>, <<7968,8005>>,
      <<8008,8013>>, <<8016,8023>>, <<8025,8025>>, <<8027,8027>>,
      <<8029,8029>>, <<8031,8061>>, <<8064,8116>>, <<8118,8124>>,
      <<8126,8126>>, <<8130,8132>>, <<8134,8140>>, <<8144,8147>>,
      <<8150,8155>>, <<8160,8172>>, <<8178,8180>>, <<8182,8188>>,
      <<8450,8450>>, <<8455,8455>>, <<8458,8467>>, <<8469,8469>>,
      <<8473,8477>>, <<8484,8484>>, <<8486,8486>>, <<8488,8488>>,
      <<8490,8493>>, <<8495,8500>>, <<8505,8505>>, <<8508,8511>>,
      <<8517,8521>>, <<8526,8526>>, <<8544,8575>>, <<8579,8580>>,
      <<9398,9449>>, <<11264,11387>>, <<11390,11492>>, <<11499,11502>>,
      <<11506,11507>>, <<11520,11557>>, <<11559,11559>>, <<11565,11565>>,
      <<42560,42605>>, <<42624,42651>>, <<42786,42863>>, <<42865,42887>>,
      <<42891,42894>>, <<42896,42954>>, <<42960,42961>>, <<42963,42963>>,
      <<42965,42969>>, <<42997,42998>>, <<43002,43002>>, <<43824,43866>>,
      <<43872,43880>>, <<43888,43967>>, <<64256,64262>>, <<64275,64279>>,
      <<65313,65338>>, <<65345,65370>>, <<66560,66639>>, <<66736,66771>>,
      <<66776,66811>>, <<66928,66938>>, <<66940,66954>>, <<66956,66962>>,
      <<66964,66965>>, <<66967,66977>>, <<66979,66993>>, <<66995,67001>>,
      <<67003,67004>>, <<68736,68786>>, <<68800,68850>>, <<71840,71903>>,
      <<93760,93823>>, <<119808,119892>>, <<119894,119964>>,
      <<119966,119967>>, <<119970,119970>>, <<119973,119974>>,
      <<119977,119980>>, <<119982,119993>>, <<119995,119995>>,
      <<119997,120003>>, <<120005,120069>>, <<120071,120074>>,
      <<120077,120084>>, <<120086,120092>>, <<120094,120121>>,
      <<120123,120126>>, <<120128,120132>>, <<120134,120134>>,
      <<120138,120144>>, <<120146,120485>>, <<120488,120512>>,
      <<120514,120538>>, <<120540,120570>>, <<120572,120596>>,
      <<120598,120628>>, <<120630,120654>>, <<120656,120686>>,
      <<120688,120712>>, <<120714,120744>>, <<120746,120770>>,
      <<120772,120779>>, <<122624,122633>>, <<122635,122654>>,
      <<125184,125251>>, <<127280,127305>>, <<127312,127337>>,
      <<127344,127369>>>>

\* Code points that are case-ignorable: <<first, last>>
CaseIgnorableRanges ==
    <<<<39,39>>, <<46,46>>, <<58,58>>, <<94,94>>, <<96,96>>, <<168,168>>,
      <<173,173>>, <<175,175>>, <<180,180>>, <<183,184>>, <<688,879>>,
      <<884,885>>, <<890,890>>, <<900,901>>, <<903,903>>, <<1155,1161>>,
      <<1369,1369>>, <<1375,1375>>, <<1425,1469>>, <<1471,1471>>,
      <<1473,1474>>, <<1476,1477>>, <<1479,1479>>, <<1524,1524>>,
      <<1536,1541>>, <<1552,1562>>, <<1564,1564>>, <<1600,1600>>,
      <<1611,1631>>, <<1648,1648>>, <<1750,1757>>, <<1759,1768>>,
      <<1770,1773>>, <<1807,1807>>, <<1809,1809>>, <<1840,1866>>,
      <<1958,1968>>, <<2027,2037>>, <<2042,2042>>, <<2045,2045>>,
      <<2070,2093>>, <<2137,2139>>, <<2184,2184>>, <<2192,2193>>,
      <<2200,2207>>, <<2249,2306>>, <<2362,2362>>, <<2364,2364>>,
      <<2369,2376>>, <<2381,2381>>, <<2385,2391>>, <<2402,2403>>,
      <<2417,2417>>, <<2433,2433>>, <<2492,2492>>, <<2497,2500>>,
      <<2509,2509>>, <<2530,2531>>, <<2558,2558>>, <<2561,2562>>,
      <<2620,2620>>, <<2625,2626>>, <<2631,2632>>, <<2635,2637>>,
      <<2641,2641>>, <<2672,2673>>, <<2677,2677>>, <<2689,2690>>,
      <<2748,2748>>, <<2753,2757>>, <<2759,2760>>, <<2765,2765>>,
      <<2786,2787>>, <<2810,2815>>, <<2817,2817>>, <<2876,2876>>,
      <<2879,2879>>, <<2881,2884>>, <<2893,2893>>, <<2901,2902>>,
      <<2914,2915>>, <<2946,2946>>, <<3008,3008>>, <<3021,3021>>,
      <<3072,3072>>, <<3076,3076>>, <<3132,3132>>, <<3134,3136>>,
      <<3142,3144>>, <<3146,3149>>, <<3157,3158>>, <<3170,3171>>,
      <<3201,3201>>, <<3260,3260>>, <<3263,3263>>, <<3270,3270>>,
      <<3276,3277>>, <<3298,3299>>, <<3328,3329>>, <<3387,3388>>,
      <<3393,3396>>, <<3405,3405>>, <<3426,3427>>, <<3457,3457>>,
      <<3530,3530>>, <<3538,3540>>, <<3542,3542>>, <<3633,3633>>,
      <<3636,3642>>, <<3654,3662>>, <<3761,3761>>, <<3764,3772>>,
      <<3782,3782>>, <<3784,3789>>, <<3864,3865>>, <<3893,3893>>,
      <<3895,3895>>, <<3897,3897>>, <<3953,3966>>, <<3968,3972>>,
      <<3974,3975>>, <<3981,3991>>, <<3993,4028>>, <<4038,4038>>,
      <<4141,4144>>, <<4146,4151>>, <<4153,4154>>, <<4157,4158>>,
      <<4184,4185>>, <<4190,4192>>, <<4209,4212>>, <<4226,4226>>,
      <<4229,4230>>, <<4237,4237>>, <<4253,4253>>, <<4348,4348>>,
      <<4957,4959>>, <<5906,5908>>, <<5938,5939>>, <<5970,5971>>,
      <<6002,6003>>, <<6068,6069>>, <<6071,6077>>, <<6086,6086>>,
      <<6089,6099>>, <<6103,6103>>, <<6109,6109>>, <<6155,6159>>,
      <<6211,6211>>, <<6277,6278>>, <<6313,6313>>, <<6432,6434>>,
      <<6439,6440>>, <<6450,6450>>, <<6457,6459>>, <<6679,6680>>,
      <<6683,6683>>, <<6742,6742>>, <<6744,6750>>, <<6752,6752>>,
      <<6754,6754>>, <<6757,6764>>, <<6771,6780>>, <<6783,6783>>,
      <<6823,6823>>, <<6832,6862>>, <<6912,6915>>, <<6964,6964>>,
      <<6966,6970>>, <<6972,6972>>, <<6978,6978>>, <<7019,7027>>,
      <<7040,7041>>, <<7074,7077>>, <<7080,7081>>, <<7083,7085>>,
      <<7142,7142>>, <<7144,7145>>, <<7149,7149>>, <<7151,7153>>,
      <<7212,7219>>, <<7222,7223>>, <<7288,7293>>, <<7376,7378>>,
      <<7380,7392>>, <<7394,7400>>, <<7405,7405>>, <<7412,7412>>,
      <<7416,7417>>, <<7468,7530>>, <<7544,7544>>, <<7579,7679>>,
      <<8125,8125>>, <<8127,8129>>, <<8141,8143>>, <<8157,8159>>,
      <<8173,8175>>, <<8189,8190>>, <<8203,8207>>, <<8216,8217>>,
      <<8228,8228>>, <<8231,8231>>, <<8234,8238>>, <<8288,8292>>,
      <<8294,8303>>, <<8305,8305>>, <<8319,8319>>, <<8336,8348>>,
      <<8400,8432>>, <<11388,11389>>, <<11503,11505>>, <<11631,11631>>,
      <<11647,11647>>, <<11744,11775>>, <<11823,11823>>, <<12293,12293>>,
      <<12330,12333>>, <<12337,12341>>, <<12347,12347>>, <<12441,12446>>,
      <<12540,12542>>, <<40981,40981>>, <<42232,42237>>, <<42508,42508>>,
      <<42607,42610>>, <<42612,42621>>, <<42623,42623>>, <<42652,42655>>,
      <<42736,42737>>, <<42752,42785>>, <<42864,42864>>, <<42888,42890>>,
      <<42994,42996>>, <<43000,43001>>, <<43010,43010>>, <<43014,43014>>,
      <<43019,43019>>, <<43045,43046>>, <<43052,43052>>, <<43204,43205>>,
      <<43232,43249>>, <<43263,43263>>, <<43302,43309>>, <<43335,43345>>,
      <<43392,43394>>, <<43443,43443>>, <<43446,43449>>, <<43452,43453>>,
      <<43471,43471>>, <<43493,43494>>, <<43561,43566>>, <<43569,43570>>,
      <<43573,43574>>, <<43587,43587>>, <<43596,43596>>, <<43632,43632>>,
      <<43644,43644>>, <<43696,43696>>, <<43698,43700>>, <<43703,43704>>,
      <<43710,43711>>, <<43713,43713>>, <<43741,43741>>, <<43756,43757>>,
      <<43763,43764>>, <<43766,43766>>, <<43867,43871>>, <<43881,43883>>,
      <<44005,44005>>, <<44008,44008>>, <<44013,44013>>, <<64286,64286>>,
      <<64434,64450>>, <<65024,65039>>, <<65043,65043>>, <<65056,65071>>,
      <<65106,65106>>, <<65109,65109>>, <<65279,65279>>, <<65287,65287>>,
      <<65294,65294>>, <<65306,65306>>, <<65342,65342>>, <<65344,65344>>,
      <<65392,65392>>, <<65438,65439>>, <<65507,65507>>, <<65529,65531>>,
      <<66045,66045>>, <<66272,66272>>, <<66422,66426>>, <<67456,67461>>,
      <<67463,67504>>, <<67506,67514>>, <<68097,68099>>, <<68101,68102>>,
      <<68108,68111>>, <<68152,68154>>, <<68159,68159>>, <<68325,68326>>,
      <<68900,68903>>, <<69291,69292>>, <<69446,69456>>, <<69506,69509>>,
      <<69633,69633>>, <<69688,69702>>, <<69744,69744>>, <<69747,69748>>,
      <<69759,69761>>, <<69811,69814>>, <<69817,69818>>, <<69821,69821>>,
      <<69826,69826>>, <<69837,69837>>, <<69888,69890>>, <<69927,69931>>,
      <<69933,69940>>, <<70003,70003>>, <<70016,70017>>, <<70070,70078>>,
      <<70089,70092>>, <<70095,70095>>, <<70191,70193>>, <<70196,70196>>,
      <<70198,70199>>, <<70206,70206>>, <<70367,70367>>, <<70371,70378>>,
      <<70400,70401>>, <<70459,70460>>, <<70464,70464>>, <<70502,70508>>,
      <<70512,70516>>, <<70712,70719>>, <<70722,70724>>, <<70726,70726>>,
      <<70750,70750>>, <<70835,70840>>, <<70842,70842>>, <<70847,70848>>,
      <<70850,70851>>, <<71090,71093>>, <<71100,71101>>, <<71103,71104>>,
      <<71132,71133>>, <<71219,71226>>, <<71229,71229>>, <<71231,71232>>,
      <<71339,71339>>, <<71341,71341>>, <<71344,71349>>, <<71351,71351>>,
      <<71453,71455>>, <<71458,71461>>, <<71463,71467>>, <<71727,71735>>,
      <<71737,71738>>, <<71995,71996>>, <<71998,71998>>, <<72003,72003>>,
      <<72148,72151>>, <<72154,72155>>, <<72160,72160>>, <<72193,72202>>,
      <<72243,72248>>, <<72251,72254>>, <<72263,72263>>, <<72273,72278>>,
      <<72281,72283>>, <<72330,72342>>, <<72344,72345>>, <<72752,72758>>,
      <<72760,72765>>, <<72767,72767>>, <<72850,72871>>, <<72874,72880>>,
      <<72882,72883>>, <<72885,72886>>, <<73009,73014>>, <<73018,73018>>,
      <<73020,73021>>, <<73023,73029>>, <<73031,73031>>, <<73104,73105>>,
      <<73109,73109>>, <<73111,73111>>, <<73459,73460>>, <<78896,78904>>,
      <<92912,92916>>, <<92976,92982>>, <<92992,92995>>, <<94031,94031>>,
      <<94095,94111>>, <<94176,94177>>, <<94179,94180>>, <<110576,110579>>,
      <<110581,110587>>, <<110589,110590>>, <<113821,113822>>,
      <<113824,113827>>, <<118528,118573>>, <<118576,118598>>,
      <<119143,119145>>, <<119155,119170>>, <<119173,119179>>,
      <<119210,119213>>, <<119362,119364>>, <<121344,121398>>,
      <<121403,121452>>, <<121461,121461>>, <<121476,121476>>,
      <<121499,121503>>, <<121505,121519>>, <<122880,122886>>,
      <<122888,122904>>, <<122907,122913>>, <<122915,122916>>,
      <<122918,122922>>, <<123184,123197>>, <<123566,123566>>,
      <<123628,123631>>, <<125136,125142>>, <<125252,125259>>,
      <<127995,127999>>, <<917505,917505>>, <<917536,917631>>,
      <<917760,917999>>>>


\* The lower case of one character that is not the capital sigma, as a text:
\* the capital I with dot above (304) gives two characters
lower_char(c) ==
    IF c < 128 THEN (IF c \in 65..90 THEN <<c + 32>> ELSE <<c>>)
    ELSE IF c = 304 THEN <<105, 775>>
    ELSE LET hits == {i \in 1..Len(LowerRanges) :
                        /\ LowerRanges[i][1] <= c /\ c <= LowerRanges[i][2]
                        /\ (c - LowerRanges[i][1]) % LowerRanges[i][3] = 0}
         IN  IF hits = {} THEN <<c>>
             ELSE <<c + LowerRanges[CHOOSE i \in hits : TRUE][4]>>

\* A cased character precedes place j + 1 of s, case-ignorable ones skipped
RECURSIVE cased_before(_, _)
cased_before(s, j) ==
    IF j < 1 THEN FALSE
    ELSE IF in_ranges(s[j], CaseIgnorableRanges) THEN cased_before(s, j - 1)
    ELSE in_ranges(s[j], CasedRanges)

\* A cased character follows place j - 1 of s, case-ignorable ones skipped
RECURSIVE cased_after(_, _)
cased_after(s, j) ==
    IF j > Len(s) THEN FALSE
    ELSE IF in_ranges(s[j], CaseIgnorableRanges) THEN cased_after(s, j + 1)
    ELSE in_ranges(s[j], CasedRanges)

\* The capital sigma (931) at place i of s ends a word: its lower case is the
\* final sigma (962), else the sigma (963)
final_sigma(s, i) == cased_before(s, i - 1) /\ ~cased_after(s, i + 1)

RECURSIVE lower_from(_, _)
lower_from(s, i) ==
    IF i > Len(s) THEN <<>>
    ELSE (IF s[i] = 931
          THEN <<IF final_sigma(s, i) THEN 962 ELSE 963>>
          ELSE lower_char(s[i])) \o lower_from(s, i + 1)

\* s.lower()
lower(s) == lower_from(s, 1)

RECURSIVE lstrip(_)
lstrip(s) ==
    IF s # <<>> /\ Head(s) \in Whitespace THEN lstrip(Tail(s)) ELSE s

RECURSIVE rstrip(_)
rstrip(s) ==
    IF s # <<>> /\ s[Len(s)] \in Whitespace
    THEN rstrip(SubSeq(s, 1, Len(s) - 1)) ELSE s

\* s.strip()
strip(s) == rstrip(lstrip(s))

\* admin.py normalize_text
normalize_text(v) == IF v.t # "none" THEN lower(strip(py_str(v))) ELSE <<>>

----------------------------------------------------------------------------
(* Geocache and distance *)

LocA == Text(<<"A">>)
LocB == Text(<<"B">>)
LocC == Text(<<"C">>)
LocD == Text(<<"D">>)
LocX == Text(<<"X">>)

\* A geocache file: location key -> [lat, lon], here points on the equator
\* that are at equal distances for the code.
GeocacheFile == (LocA :> <<0, 0>>) @@ (LocB :> <<0, 2>>) @@
                (LocC :> <<0, 4>>) @@ (LocD :> <<0, 8>>)

\* A geocache whose points A, B, C are two degrees apart and at distances that
\* differ for the code, with a point off the equator
UnevenGeocache == (LocA :> <<0, 1>>) @@ (LocB :> <<0, 3>>) @@
                  (LocC :> <<0, 5>>) @@ (LocD :> <<1, 1>>)

\* A geocache with two points on both sides of the 180th meridian
DatelineGeocache == (LocA :> <<0, 170>>) @@ (LocB :> <<0, -170>>) @@
                    (LocC :> <<0, 0>>)

EmptyGeocache == [k \in {} |-> <<0, 0>>]

\* Valid JSON whose values are not 2-element arrays: {"A": [0]}
OneElementGeocache == (LocA :> <<0>>)

\* loc in GEOCACHE, for a Python value loc
InGeocache(G, loc) == loc.t = "str" /\ loc.s \in DOMAIN G

\* A float x >= 0 is the integer x * 2^62 in four limbs of twenty bits, the
\* most significant first: every double from 2^-10 up to 2^18 is such an
\* integer.
LimbBase == 1048576

\* 0.0
Zero == <<0, 0, 0, 0>>

\* float('inf')
Inf == <<LimbBase, 0, 0, 0>>

\* a < b for two floats
float_lt(a, b) ==
    \E i \in 1..4 : a[i] < b[i] /\ \A j \in 1..(i - 1) : a[j] = b[j]

\* Bit k of the integer n, k = 0 for the least significant
bit(n, k) == (n[4 - (k \div 20)] \div (2 ^ (k % 20))) % 2

\* a + b as integers
limbs_add(a, b) ==
    LET s0 == a[4] + b[4]
        s1 == a[3] + b[3] + (s0 \div LimbBase)
        s2 == a[2] + b[2] + (s1 \div LimbBase)
        s3 == a[1] + b[1] + (s2 \div LimbBase)
    IN  <<s3, s2 % LimbBase, s1 % LimbBase, s0 % LimbBase>>

\* The integer n with its d lowest bits cleared
clear_low(n, d) ==
    [i \in 1..4 |->
        LET low == 20 * (4 - i) IN
        IF low >= d THEN n[i]
        ELSE IF low + 20 <= d THEN 0
        ELSE n[i] - (n[i] % (2 ^ (d - low)))]

\* 2^d as an integer
pow2_limbs(d) == [i \in 1..4 |-> IF 4 - i = d \div 20 THEN 2 ^ (d % 20) ELSE 0]

\* The integer n rounded to 53 significant bits, ties to even: the result of a
\* float operation whose exact result is n
round53(n) ==
    IF \A k \in 53..79 : bit(n, k) = 0 THEN n
    ELSE LET high == CHOOSE k \in 53..79 :
                       bit(n, k) = 1 /\ \A j \in (k + 1)..79 : bit(n, j) = 0
             d == high - 52
             sticky == \E j \in 0..(d - 2) : bit(n, j) = 1
             up == bit(n, d - 1) = 1 /\ (sticky \/ bit(n, d) = 1)
         IN  IF up THEN limbs_add(clear_low(n, d), pow2_limbs(d))
             ELSE clear_low(n, d)

\* a + b for two floats
float_add(a, b) == round53(limbs_add(a, b))

\* haversine(a, b) as the code computes it, for the points of the model:
\* <<a, b>> :> haversine(a, b), which equals haversine(b, a) for these
HaversineTable ==
    (<<<<0, 0>>, <<0, 0>>>> :> <<0, 0, 0, 0>>) @@
    (<<<<0, 0>>, <<0, 1>>>> :> <<444, 817581, 634366, 786432>>) @@
    (<<<<0, 0>>, <<0, 2>>>> :> <<889, 586587, 220157, 524288>>) @@
    (<<<<0, 0>>, <<0, 3>>>> :> <<1334, 355592, 854524, 262144>>) @@
    (<<<<0, 0>>, <<0, 4>>>> :> <<1779, 124598, 440315, 0>>) @@
    (<<<<0, 0>>, <<0, 5>>>> :> <<2223, 942180, 26105, 524288>>) @@
    (<<<<0, 0>>, <<0, 8>>>> :> <<3558, 249196, 880630, 0>>) @@
    (<<<<0, 0>>, <<1, 0>>>> :> <<444, 817581, 634366, 786432>>) @@
    (<<<<0, 0>>, <<3, 0>>>> :> <<1334, 355592, 854524, 262144>>) @@
    (<<<<0, 0>>, <<5, 0>>>> :> <<2223, 942180, 26105, 524288>>) @@
    (<<<<0, 0>>, <<1, 1>>>> :> <<628, 1045980, 908527, 917504>>) @@
    (<<<<0, 0>>, <<2, 2>>>> :> <<1257, 942900, 979153, 524288>>) @@
    (<<<<0, 0>>, <<0, 170>>>> :> <<75612, 576840, 887616, 0>>) @@
    (<<<<0, 0>>, <<0, -170>>>> :> <<75612, 576840, 887616, 0>>) @@
    (<<<<0, 1>>, <<0, 1>>>> :> <<0, 0, 0, 0>>) @@
    (<<<<0, 1>>, <<0, 2>>>> :> <<444, 817581, 634366, 786432>>) @@
    (<<<<0, 1>>, <<0, 3>>>> :> <<889, 586587, 220157, 786432>>) @@
    (<<<<0, 1>>, <<0, 4>>>> :> <<1334, 355592, 854524, 262144>>) @@
    (<<<<0, 1>>, <<0, 5>>>> :> <<1779, 124598, 440315, 0>>) @@
    (<<<<0, 1>>, <<0, 8>>>> :> <<3113, 480191, 246263, 524288>>) @@
    (<<<<0, 1>>, <<1, 0>>>> :> <<628, 1045980, 908527, 917504>>) @@
    (<<<<0, 1>>, <<3, 0>>>> :> <<1406, 474635, 707035, 0>>) @@
    (<<<<0, 1>>, <<5, 0>>>> :> <<2267, 869928, 104291, 524288>>) @@
    (<<<<0, 1>>, <<1, 1>>>> :> <<444, 817581, 634366, 786432>>) @@
    (<<<<0, 1>>, <<2, 2>>>> :> <<994, 542385, 817097, 524288>>) @@
    (<<<<0, 1>>, <<0, 170>>>> :> <<75167, 807835, 253264, 0>>) @@
    (<<<<0, 1>>, <<0, -170>>>> :> <<76057, 345846, 473392, 0>>) @@
    (<<<<0, 2>>, <<0, 2>>>> :> <<0, 0, 0, 0>>) @@
    (<<<<0, 2>>, <<0, 3>>>> :> <<444, 817581, 634366, 917504>>) @@
    (<<<<0, 2>>, <<0, 4>>>> :> <<889, 586587, 220157, 524288>>) @@
    (<<<<0, 2>>, <<0, 5>>>> :> <<1334, 355592, 854524, 262144>>) @@
    (<<<<0, 2>>, <<0, 8>>>> :> <<2668, 711185, 660472, 524288>>) @@
    (<<<<0, 2>>, <<1, 0>>>> :> <<994, 542385, 817097, 524288>>) @@
    (<<<<0, 2>>, <<3, 0>>>> :> <<1603, 472381, 294104, 786432>>) @@
    (<<<<0, 2>>, <<5, 0>>>> :> <<2394, 830907, 630663, 524288>>) @@
    (<<<<0, 2>>, <<1, 1>>>> :> <<628, 1045980, 908527, 917504>>) @@
    (<<<<0, 2>>, <<2, 2>>>> :> <<889, 586587, 220157, 524288>>) @@
    (<<<<0, 2>>, <<0, 170>>>> :> <<74722, 1038829, 667424, 0>>) @@
    (<<<<0, 2>>, <<0, -170>>>> :> <<76502, 114852, 59152, 0>>) @@
    (<<<<0, 3>>, <<0, 3>>>> :> <<0, 0, 0, 0>>) @@
    (<<<<0, 3>>, <<0, 4>>>> :> <<444, 817581, 634366, 720896>>) @@
    (<<<<0, 3>>, <<0, 5>>>> :> <<889, 586587, 220157, 393216>>) @@
    (<<<<0, 3>>, <<0, 8>>>> :> <<2223, 942180, 26105, 524288>>) @@
    (<<<<0, 3>>, <<1, 0>>>> :> <<1406, 474635, 707035, 0>>) @@
    (<<<<0, 3>>, <<3, 0>>>> :> <<1886, 638744, 273172, 786432>>) @@
    (<<<<0, 3>>, <<5, 0>>>> :> <<2592, 646946, 1037902, 524288>>) @@
    (<<<<0, 3>>, <<1, 1>>>> :> <<994, 542385, 817097, 917504>>) @@
    (<<<<0, 3>>, <<2, 2>>>> :> <<994, 542385, 817097, 524288>>) @@
    (<<<<0, 3>>, <<0, 170>>>> :> <<74278, 221248, 33072, 0>>) @@
    (<<<<0, 3>>, <<0, -170>>>> :> <<76946, 932433, 693504, 0>>) @@
    (<<<<0, 4>>, <<0, 4>>>> :> <<0, 0, 0, 0>>) @@
    (<<<<0, 4>>, <<0, 5>>>> :> <<444, 817581, 634366, 720896>>) @@
    (<<<<0, 4>>, <<0, 8>>>> :> <<1779, 124598, 440315, 0>>) @@
    (<<<<0, 4>>, <<1, 0>>>> :> <<1833, 824232, 977572, 786432>>) @@
    (<<<<0, 4>>, <<3, 0>>>> :> <<2223, 259802, 312376, 0>>) @@
    (<<<<0, 4>>, <<5, 0>>>> :> <<2846, 595123, 279097, 524288>>) @@
    (<<<<0, 4>>, <<1, 1>>>> :> <<1406, 474635, 707035, 0>>) @@
    (<<<<0, 4>>, <<2, 2>>>> :> <<1257, 942900, 979153, 524288>>) @@
    (<<<<0, 4>>, <<0, 170>>>> :> <<73833, 452242, 447264, 0>>) @@
    (<<<<0, 4>>, <<0, -170>>>> :> <<77391, 701439, 279264, 0>>) @@
    (<<<<0, 5>>, <<0, 5>>>> :> <<0, 0, 0, 0>>) @@
    (<<<<0, 5>>, <<0, 8>>>> :> <<1334, 355592, 854524, 262144>>) @@
    (<<<<0, 5>>, <<1, 0>>>> :> <<2267, 869928, 104291, 524288>>) @@
    (<<<<0, 5>>, <<3, 0>>>> :> <<2592, 646946, 1037902, 524288>>) @@
    (<<<<0, 5>>, <<5, 0>>>> :> <<3143, 72229, 469325, 0>>) @@
    (<<<<0, 5>>, <<1, 1>>>> :> <<1833, 824232, 977572, 786432>>) @@
    (<<<<0, 5>>, <<2, 2>>>> :> <<1603, 472381, 294104, 786432>>) @@
    (<<<<0, 5>>, <<0, 170>>>> :> <<73388, 683236, 861488, 0>>) @@
    (<<<<0, 5>>, <<0, -170>>>> :> <<77836, 470444, 913776, 0>>) @@
    (<<<<0, 8>>, <<0, 8>>>> :> <<0, 0, 0, 0>>) @@
    (<<<<0, 8>>, <<1, 0>>>> :> <<3585, 785529, 100124, 524288>>) @@
    (<<<<0, 8>>, <<3, 0>>>> :> <<3798, 707349, 391893, 0>>) @@
    (<<<<0, 8>>, <<5, 0>>>> :> <<4192, 214855, 665115, 0>>) @@
    (<<<<0, 8>>, <<1, 1>>>> :> <<3144, 955067, 480885, 0>>) @@
    (<<<<0, 8>>, <<2, 2>>>> :> <<2812, 544478, 484613, 524288>>) @@
    (<<<<0, 8>>, <<0, 170>>>> :> <<72054, 327644, 6976, 0>>) @@
    (<<<<0, 8>>, <<0, -170>>>> :> <<79170, 826037, 719776, 0>>) @@
    (<<<<1, 0>>, <<1, 0>>>> :> <<0, 0, 0, 0>>) @@
    (<<<<1, 0>>, <<3, 0>>>> :> <<889, 586587, 220157, 786432>>) @@
    (<<<<1, 0>>, <<5, 0>>>> :> <<1779, 124598, 440315, 0>>) @@
    (<<<<1, 0>>, <<1, 1>>>> :> <<444, 746547, 60930, 327680>>) @@
    (<<<<1, 0>>, <<2, 2>>>> :> <<994, 288229, 405839, 0>>) @@
    (<<<<1, 0>>, <<0, 170>>>> :> <<75590, 620352, 348992, 0>>) @@
    (<<<<1, 0>>, <<0, -170>>>> :> <<75590, 620352, 348992, 0>>) @@
    (<<<<3, 0>>, <<3, 0>>>> :> <<0, 0, 0, 0>>) @@
    (<<<<3, 0>>, <<5, 0>>>> :> <<889, 586587, 220157, 393216>>) @@
    (<<<<3, 0>>, <<1, 1>>>> :> <<994, 447101, 340639, 262144>>) @@
    (<<<<3, 0>>, <<2, 2>>>> :> <<993, 828616, 599987, 0>>) @@
    (<<<<3, 0>>, <<0, 170>>>> :> <<75418, 694211, 128928, 0>>) @@
    (<<<<3, 0>>, <<0, -170>>>> :> <<75418, 694211, 128928, 0>>) @@
    (<<<<5, 0>>, <<5, 0>>>> :> <<0, 0, 0, 0>>) @@
    (<<<<5, 0>>, <<1, 1>>>> :> <<1833, 738126, 429420, 524288>>) @@
    (<<<<5, 0>>, <<2, 2>>>> :> <<1602, 733324, 968948, 786432>>) @@
    (<<<<5, 0>>, <<0, 170>>>> :> <<75092, 653922, 880272, 0>>) @@
    (<<<<5, 0>>, <<0, -170>>>> :> <<75092, 653922, 880272, 0>>) @@
    (<<<<1, 1>>, <<1, 1>>>> :> <<0, 0, 0, 0>>) @@
    (<<<<1, 1>>, <<2, 2>>>> :> <<628, 945530, 523257, 524288>>) @@
    (<<<<1, 1>>, <<0, 170>>>> :> <<75147, 883684, 259888, 0>>) @@
    (<<<<1, 1>>, <<0, -170>>>> :> <<76032, 941589, 879776, 0>>) @@
    (<<<<2, 2>>, <<2, 2>>>> :> <<0, 0, 0, 0>>) @@
    (<<<<2, 2>>, <<0, 170>>>> :> <<74650, 462425, 32560, 0>>) @@
    (<<<<2, 2>>, <<0, -170>>>> :> <<76393, 316487, 365200, 0>>) @@
    (<<<<0, 170>>, <<0, 170>>>> :> <<0, 0, 0, 0>>) @@
    (<<<<0, 170>>, <<0, -170>>>> :> <<8895, 622992, 104420, 0>>) @@
    (<<<<0, -170>>, <<0, -170>>>> :> <<0, 0, 0, 0>>)

\* haversine(a, b), in kilometres
haversine(a, b) ==
    IF <<a, b>> \in DOMAIN HaversineTable THEN HaversineTable[<<a, b>>]
    ELSE HaversineTable[<<b, a>>]

\* round(total, 2) in hundredths: the hundredth nearest to the float, the even
\* one when the float is half way between two
round2(total) ==
    LET m0 == 100 * total[4]
        m1 == 100 * total[3] + (m0 \div LimbBase)
        m2 == 100 * total[2] + (m1 \div LimbBase)
        m3 == 100 * total[1] + (m2 \div LimbBase)
        q == m3 \div 4
        rest == (m2 % LimbBase) + (m1 % LimbBase) + (m0 % LimbBase)
        up == \/ m3 % 4 = 3
              \/ m3 % 4 = 2 /\ (rest > 0 \/ q % 2 = 1)
    IN  IF up THEN q + 1 ELSE q

----------------------------------------------------------------------------
(* greedy_route_from_coords *)

InSeq(x, q) == \E i \in 1..Len(q) : q[i] = x

\* An exception raised by val[0] or val[1]
IndexError == [t |-> "IndexError", s |-> <<>>]

\* float(val[0]), float(val[1]) raises for a location of the list: it is in
\* the geocache with an array of less than two elements
coords_raises(G, locs) ==
    \E i \in 1..Len(locs) :
      InGeocache(G, locs[i]) /\ Len(G[locs[i].s]) < 2

\* list(coords.keys()): the keys of the coords dict in insertion order, one
\* entry per location of the list that is in the geocache (a repeated key
\* keeps the place of its first insertion).
RECURSIVE coords_keys(_, _, _)
coords_keys(G, locs, keys) ==
    IF locs = <<>> THEN keys
    ELSE LET loc == Head(locs) IN
         coords_keys(G, Tail(locs),
                     IF InGeocache(G, loc) /\ ~InSeq(loc, keys)
                     THEN Append(keys, loc) ELSE keys)

\* coords[n] = (float(val[0]), float(val[1]))
coord_of(G, n) == <<G[n.s][1], G[n.s][2]>>

\* start_node with the depot taken unchecked: start = depot or nodes[0]
start_node_mut(nodes, dep) == IF dep # None THEN dep ELSE nodes[1]

\* start_node with the depot ignored: start = nodes[0]
start_node_first(nodes, dep) == nodes[1]

\* start = depot if depot in coords else nodes[0]
start_node(nodes, dep) == IF InSeq(dep, nodes) THEN dep ELSE nodes[1]

\* nearest_scan with the scan stopping one node short of the end of nodes
RECURSIVE nearest_scan_mut(_, _, _, _, _, _)
nearest_scan_mut(G, nodes, visited, current, i, best) ==
    IF i >= Len(nodes) THEN best
    ELSE LET n == nodes[i]
             d == haversine(coord_of(G, current), coord_of(G, n))
         IN  IF n \in visited
             THEN nearest_scan_mut(G, nodes, visited, current, i + 1, best)
             ELSE nearest_scan_mut(G, nodes, visited, current, i + 1,
                                   IF float_lt(d, best.ndist)
                                   THEN [nearest |-> n, ndist |-> d] ELSE best)

\* nearest_scan with the comparison d <= ndist: the last minimum wins
RECURSIVE nearest_scan_last(_, _, _, _, _, _)
nearest_scan_last(G, nodes, visited, current, i, best) ==
    IF i > Len(nodes) THEN best
    ELSE LET n == nodes[i]
             d == haversine(coord_of(G, current), coord_of(G, n))
         IN  IF n \in visited
             THEN nearest_scan_last(G, nodes, visited, current, i + 1, best)
             ELSE nearest_scan_last(G, nodes, visited, current, i + 1,
                                    IF ~float_lt(best.ndist, d)
                                    THEN [nearest |-> n, ndist |-> d] ELSE best)

\* The for-loop over nodes that finds the nearest unvisited node: the scan
\* keeps the first node whose distance is strictly below the best so far.
RECURSIVE nearest_scan(_, _, _, _, _, _)
nearest_scan(G, nodes, visited, current, i, best) ==
    IF i > Len(nodes) THEN best
    ELSE LET n == nodes[i]
             d == haversine(coord_of(G, current), coord_of(G, n))
         IN  IF n \in visited
             THEN nearest_scan(G, nodes, visited, current, i + 1, best)
             ELSE nearest_scan(G, nodes, visited, current, i + 1,
                               IF float_lt(d, best.ndist)
                               THEN [nearest |-> n, ndist |-> d] ELSE best)

\* greedy_loop with the while-loop ending one node early:
\* while len(visited) < len(nodes) - 1
RECURSIVE greedy_loop_mut(_, _, _, _, _, _)
greedy_loop_mut(G, nodes, rt, visited, total, current) ==
    IF ~(Cardinality(visited) < Len(nodes) - 1)
    THEN [route |-> rt, total |-> total]
    ELSE LET best == nearest_scan(G, nodes, visited, current, 1,
                                  [nearest |-> None, ndist |-> Inf])
         IN  IF best.nearest = None
             THEN [route |-> rt, total |-> total]
             ELSE greedy_loop_mut(G, nodes, Append(rt, best.nearest),
                                  visited \cup {best.nearest},
                                  float_add(total, best.ndist), best.nearest)

\* The while-loop: extend the route by the nearest unvisited node until all
\* nodes are visited or no node is found.
RECURSIVE greedy_loop(_, _, _, _, _, _)
greedy_loop(G, nodes, rt, visited, total, current) ==
    IF ~(Cardinality(visited) < Len(nodes))
    THEN [route |-> rt, total |-> total]
    ELSE LET best == nearest_scan(G, nodes, visited, current, 1,
                                  [nearest |-> None, ndist |-> Inf])
         IN  IF best.nearest = None
             THEN [route |-> rt, total |-> total]
             ELSE greedy_loop(G, nodes, Append(rt, best.nearest),
                              visited \cup {best.nearest},
                              float_add(total, best.ndist), best.nearest)

\* greedy_route_from_coords with the depot inserted as a node of its own:
\* for loc in [depot] + locations
greedy_route_from_coords_mut(G, locs, dep) ==
    LET nodes == coords_keys(G, <<dep>> \o locs, <<>>) IN
    IF coords_raises(G, locs) THEN IndexError
    ELSE IF nodes = <<>> THEN [route |-> <<>>, distance |-> 0]
    ELSE LET start == start_node(nodes, dep)
             r == greedy_loop(G, nodes, <<start>>, {start}, Zero, start)
         IN  [route |-> r.route, distance |-> round2(r.total)]

\* greedy_route_from_coords(locations, depot) with the geocache G: the route
\* and the distance in hundredths of a kilometre, or the exception raised
greedy_route_from_coords(G, locs, dep) ==
    LET nodes == coords_keys(G, locs, <<>>) IN
    IF coords_raises(G, locs) THEN IndexError
    ELSE IF nodes = <<>> THEN [route |-> <<>>, distance |-> 0]
    ELSE LET start == start_node(nodes, dep)
             r == greedy_loop(G, nodes, <<start>>, {start}, Zero, start)
         IN  [route |-> r.route, distance |-> round2(r.total)]

----------------------------------------------------------------------------
(* assign_locations *)

\* dict.get(key, default) on a dict modelled as a function
dict_get(d, key, default) == IF key \in DOMAIN d THEN d[key] ELSE default

\* The loop that builds by_problem: a ticket with a falsy location or problem
\* is skipped, any other appends its location to the list of its problem.
RECURSIVE by_problem(_, _)
by_problem(custs, d) ==
    IF custs = <<>> THEN d
    ELSE LET c == Head(custs)
             loc == dict_get(c, "location", None)
             prob == dict_get(c, "problem_occured", None)
         IN  IF ~py_truthy(loc) \/ ~py_truthy(prob)
             THEN by_problem(Tail(custs), d)
             ELSE by_problem(Tail(custs),
                     [k \in DOMAIN d \cup {prob} |->
                         IF k = prob THEN Append(dict_get(d, prob, <<>>), loc)
                         ELSE d[k]])

EmptyDict == [k \in {} |-> <<>>]

\* The availability tokens assign_locations accepts
assign_true_set ==
    {Text(<<"y","e","s">>), Text(<<"1">>), Text(<<"t","r","u","e">>),
     Text(<<"a","v","a","i","l","a","b","l","e">>)}

\* is_available with the test inverted: if avail in (...): continue
is_available_mut(emp) ==
    lower(strip(py_str(emp.availability))) \notin assign_true_set

\* avail = str(emp.get('availability', '')).strip().lower();
\* avail in ('yes', '1', 'true', 'available')
is_available(emp) ==
    lower(strip(py_str(emp.availability))) \in assign_true_set

\* locs = by_problem.get(prob, [])
locs_for(byp, emp) == dict_get(byp, emp.problem_occured, <<>>)

\* The loop over employees
RECURSIVE assign_loop(_, _, _)
assign_loop(emps, byp, out) ==
    IF emps = <<>> THEN out
    ELSE LET emp == Head(emps)
             locs == locs_for(byp, emp)
         IN  IF ~is_available(emp)
             THEN assign_loop(Tail(emps), byp, out)
             ELSE assign_loop(Tail(emps), byp,
                     IF locs # <<>>
                     THEN Append(out, [e_id |-> emp.e_id,
                                       name |-> emp.name,
                                       assigned_locations |-> locs,
                                       problem_occured |-> emp.problem_occured])
                     ELSE out)

assign_locations(emps, custs) ==
    assign_loop(emps, by_problem(custs, EmptyDict), <<>>)

----------------------------------------------------------------------------
(* admin.py: upload of employees.json, availability filter *)

\* ALLOWED_EXT
ALLOWED_EXT == {Text(<<".","c","s","v">>)}

\* employee_data: the five columns kept of a row, None for a missing column
employee_data(row) ==
    [e_id |-> dict_get(row, "e_id", None),
     name |-> dict_get(row, "name", None),
     skill |-> dict_get(row, "skill", None),
     problem_occured |-> dict_get(row, "problem_occured", None),
     availability |-> dict_get(row, "availability", None)]

\* The upload is answered 400 before anything is written: no file part, an
\* empty file name, an extension outside ALLOWED_EXT
upload_rejected(upload) ==
    \/ ~upload.has_file
    \/ upload.filename = <<>>
    \/ lower(upload.ext) \notin ALLOWED_EXT

\* The bytes of a character of a str in the text json.dump writes with
\* ensure_ascii=False, encoded in UTF-8: the double quote, the backslash and
\* \b \t \n \f \r are escaped by a backslash, the other control characters
\* as \uXXXX
json_char_len(c) ==
    IF c \in {34, 92, 8, 9, 10, 12, 13} THEN 2
    ELSE IF c < 32 THEN 6
    ELSE IF c < 128 THEN 1
    ELSE IF c < 2048 THEN 2
    ELSE IF c < 65536 THEN 3
    ELSE 4

RECURSIVE json_text_len(_)
json_text_len(s) ==
    IF s = <<>> THEN 0 ELSE json_char_len(Head(s)) + json_text_len(Tail(s))

\* The bytes of a value: null, or the text between double quotes
json_value_len(v) == IF v.t = "none" THEN 4 ELSE 2 + json_text_len(v.s)

\* The bytes of a member of a record with indent=3: six spaces, the key
\* between double quotes, a colon and a space, the value
json_member_len(key_len, v) == 6 + (key_len + 2) + 2 + json_value_len(v)

\* The bytes of a record: the opening line, the five members separated by a
\* comma and a newline, the closing line
json_record_len(emp) ==
    5 + json_member_len(4, emp.e_id) + 2
      + json_member_len(4, emp.name) + 2
      + json_member_len(5, emp.skill) + 2
      + json_member_len(15, emp.problem_occured) + 2
      + json_member_len(12, emp.availability) + 5

RECURSIVE json_records_len(_)
json_records_len(emps) ==
    IF emps = <<>> THEN 0
    ELSE json_record_len(Head(emps)) + json_records_len(Tail(emps))

\* The number of bytes json.dump(employees, f, indent=3, ensure_ascii=False)
\* writes
json_size(emps) ==
    IF emps = <<>> THEN 2
    ELSE 2 + json_records_len(emps) + 2 * (Len(emps) - 1) + 2

\* A file of the directory of employees.json: whether the name exists, whether
\* json.load reads the content, the list it gives, the size in bytes
NoFile == [exists |-> FALSE, valid |-> FALSE, rows |-> <<>>, size |-> 0]

\* open(tmp_json, 'w') creates the file or truncates it
EmptyFile == [exists |-> TRUE, valid |-> FALSE, rows |-> <<>>, size |-> 0]

\* The file f after json.dump(emps, f) and the close of a descriptor that was
\* opened for writing, at offset 0: the text replaces the first bytes of the
\* file, and what the file holds beyond the text stays
write_file(f, emps) ==
    IF json_size(emps) >= f.size
    THEN [exists |-> f.exists, valid |-> TRUE, rows |-> emps,
          size |-> json_size(emps)]
    ELSE [exists |-> f.exists, valid |-> FALSE, rows |-> <<>>,
          size |-> f.size]

\* json.load of employees.json in a reader: an exception gives no employees
read_employees(f) == IF f.exists /\ f.valid THEN f.rows ELSE <<>>

true_set == {Text(<<"y","e","s">>), Text(<<"t","r","u","e">>), Text(<<"1">>),
             Text(<<"a","v","a","i","l","a","b","l","e">>), Text(<<"y">>)}

false_set ==
    {Text(<<"n","o">>), Text(<<"f","a","l","s","e">>), Text(<<"0">>),
     Text(<<"n">>)}

\* b contains a as a substring (Python's "a in b" on str)
is_substring(a, b) ==
    \E i \in 0..(Len(b) - Len(a)) : SubSeq(b, i + 1, i + Len(a)) = a

\* availability_matches(emp_av_raw, desired_raw)
availability_matches(emp_av_raw, desired_raw) ==
    IF ~py_truthy(desired_raw) THEN TRUE
    ELSE LET emp_av == normalize_text(emp_av_raw)
             desired == normalize_text(desired_raw)
         IN  IF desired \in true_set THEN emp_av \in true_set
             ELSE IF desired \in false_set THEN emp_av \in false_set
             ELSE is_substring(desired, emp_av)

----------------------------------------------------------------------------
(* customers_api.py: the functions of create_customer_ticket *)

\* The code point of digit zero of every block of decimal digits beyond
\* ASCII; the ten digits of a block are consecutive
DecimalStarts ==
    <<1632, 1776, 1984, 2406, 2534, 2662, 2790,
      2918, 3046, 3174, 3302, 3430, 3558, 3664,
      3792, 3872, 4160, 4240, 6112, 6160, 6470,
      6608, 6784, 6800, 6992, 7088, 7232, 7248,
      42528, 43216, 43264, 43472, 43504, 43600,
      44016, 65296, 66720, 68912, 69734, 69872,
      69942, 70096, 70384, 70736, 70864, 71248,
      71360, 71472, 71904, 72016, 72784, 73040,
      73120, 92768, 92864, 93008, 120782, 120792,
      120802, 120812, 120822, 123200, 123632, 125264,
      130032>>

\* Code points for which isdigit() holds and that int() rejects
\* (superscripts, circled digits, ...): <<first, last>>
OtherDigitRanges ==
    <<<<178,179>>, <<185,185>>, <<4969,4977>>, <<6618,6618>>, <<8304,8304>>,
      <<8308,8313>>, <<8320,8329>>, <<9312,9320>>, <<9332,9340>>,
      <<9352,9360>>, <<9450,9450>>, <<9461,9469>>, <<9471,9471>>,
      <<10102,10110>>, <<10112,10120>>, <<10122,10130>>, <<68160,68163>>,
      <<69216,69224>>, <<69714,69722>>, <<127232,127242>>>>

\* The value of a decimal digit character, -1 for any other character
decimal_value(c) ==
    IF c \in 48..57 THEN c - 48
    ELSE LET blocks == {i \in 1..Len(DecimalStarts) :
                          DecimalStarts[i] <= c /\ c <= DecimalStarts[i] + 9}
         IN  IF blocks = {} THEN -1
             ELSE c - DecimalStarts[CHOOSE i \in blocks : TRUE]

\* s.isdigit(): s is not empty and every character is a digit
isdigit(chars) ==
    /\ chars # <<>>
    /\ \A i \in 1..Len(chars) :
         decimal_value(chars[i]) >= 0 \/ in_ranges(chars[i], OtherDigitRanges)

\* sys.get_int_max_str_digits(): the most digits of a text that int()
\* converts and of an int that is written as text
MaxStrDigits == 4300

\* What int(s) and the format of an int raise
ValueError == [t |-> "ValueError", s |-> <<>>]

\* int(s) raises ValueError for a text of digits when one is not decimal or
\* when the text has more than MaxStrDigits digits (leading zeros count)
int_raises(chars) ==
    \/ Len(chars) > MaxStrDigits
    \/ \E i \in 1..Len(chars) : decimal_value(chars[i]) < 0

\* A Python int n >= 0 is the sequence of its decimal digits without leading
\* zeros, the empty sequence for 0
strip_zeros(ds) ==
    LET nonzero == {i \in 1..Len(ds) : ds[i] # 0} IN
    IF nonzero = {} THEN <<>>
    ELSE LET first == CHOOSE i \in nonzero : \A j \in nonzero : i <= j
         IN  SubSeq(ds, first, Len(ds))

\* int(s) for a text of decimal digits
int_of(chars) == strip_zeros([i \in 1..Len(chars) |-> decimal_value(chars[i])])

\* a > b for two ints
int_gt(a, b) ==
    \/ Len(a) > Len(b)
    \/ /\ Len(a) = Len(b)
       /\ \E i \in 1..Len(a) :
            /\ a[i] > b[i]
            /\ \A j \in 1..(i - 1) : a[j] = b[j]

\* n + 1: the last digit below 9 goes up by one and the nines after it
\* become zeros
int_succ(n) ==
    LET below == {i \in 1..Len(n) : n[i] < 9} IN
    IF below = {} THEN <<1>> \o [i \in 1..Len(n) |-> 0]
    ELSE LET k == CHOOSE i \in below : \A j \in (i + 1)..Len(n) : n[j] = 9
         IN  [i \in 1..Len(n) |->
                IF i < k THEN n[i] ELSE IF i = k THEN n[i] + 1 ELSE 0]

\* Writing n as text raises ValueError: n has more than MaxStrDigits digits
str_raises(n) == Len(n) > MaxStrDigits

\* str(n): the text of an int, or the exception raised
digits_of(n) ==
    IF str_raises(n) THEN ValueError
    ELSE IF n = <<>> THEN <<48>>
    ELSE [i \in 1..Len(n) |-> 48 + n[i]]

\* f"{n:04d}": zero-padded to at least four digits
RECURSIVE zero_pad(_, _)
zero_pad(chars, width) ==
    IF Len(chars) >= width THEN chars ELSE zero_pad(<<48>> \o chars, width)

\* isinstance(tn, str) and tn.startswith('T') and tn[1:].isdigit()
is_ticket_number(tn) ==
    tn.t = "str" /\ tn.s # <<>> /\ Head(tn.s) = 84 /\ isdigit(Tail(tn.s))

\* The loop of _generate_next_ticket_number that finds max_num: a ticket
\* whose number int() rejects is passed over
RECURSIVE max_ticket_num(_, _)
max_ticket_num(custs, max_num) ==
    IF custs = <<>> THEN max_num
    ELSE LET tn == dict_get(Head(custs), "ticket_number", Str(<<>>)) IN
         IF is_ticket_number(tn) /\ ~int_raises(Tail(tn.s))
            /\ int_gt(int_of(Tail(tn.s)), max_num)
         THEN max_ticket_num(Tail(custs), int_of(Tail(tn.s)))
         ELSE max_ticket_num(Tail(custs), max_num)

\* _generate_next_ticket_number(customers): the next number, or the
\* exception that f"T{next_num:04d}" raises
generate_next_ticket_number(custs) ==
    LET next_num == int_succ(max_ticket_num(custs, <<>>)) IN
    IF str_raises(next_num) THEN ValueError
    ELSE Str(<<84>> \o zero_pad(digits_of(next_num), 4))

\* required = ['username', 'location', 'contact', 'problem_occured']
required == <<"username", "location", "contact", "problem_occured">>

\* _validate_customer_payload(payload): the required fields that are missing
validate_customer_payload(payload) ==
    SelectSeq(required,
              LAMBDA r : \/ r \notin DOMAIN payload
                         \/ payload[r] = None
                         \/ payload[r] = Str(<<>>))

\* new_ticket
new_ticket(payload, ticket_number) ==
    [username |-> payload.username, ticket_number |-> ticket_number,
     location |-> payload.location, contact |-> payload.contact,
     problem_occured |-> payload.problem_occured]

\* create_customer_ticket as one step, from the check of the payload to the
\* response: the status of the response and the content of the store after
\* it, custs before it; writable is whether _write_customers_file succeeds.
\* The exception of _generate_next_ticket_number is not caught: the request
\* fails (500) and the store is left as it was.
create_customer_ticket(payload, custs, writable) ==
    IF payload = None \/ validate_customer_payload(payload) # <<>>
    THEN [status |-> 400, customers |-> custs]
    ELSE LET tn == generate_next_ticket_number(custs) IN
         IF tn = ValueError THEN [status |-> 500, customers |-> custs]
         ELSE IF writable
         THEN [status |-> 201,
               customers |-> Append(custs, new_ticket(payload, tn))]
         ELSE [status |-> 500, customers |-> custs]

\* file_lock with the lock taken without waiting for its holder
can_acquire_mut(lock) == TRUE

\* with file_lock: the lock is taken only when no thread holds it
can_acquire(lock) == lock = 0

----------------------------------------------------------------------------
(* Inputs of the model *)

Digits == <<"1","2","3","4","5","6","7","8","9">>

\* Availability texts of an employee record
AvailInputs == { StrLit(<<" ","Y","E","S"," ">>), StrLit(<<"T","r","u","e">>),
                 StrLit(<<"1">>),
                 StrLit(<<"A","v","a","i","l","a","b","l","e">>),
                 StrLit(<<"y">>), StrLit(<<" ","Y">>), StrLit(<<"N","o">>) }

Leak == StrLit(<<"l","e","a","k">>)
LeakVariant == StrLit(<<"L","e","a","k"," ">>)
Wifi == StrLit(<<"w","i","f","i">>)

EmpProblems == {Leak, LeakVariant, Wifi}

TicketProblems == {Leak, LeakVariant}

TicketLocations == {Str(LocA), Str(LocX)}

\* The i-th row of an uploaded CSV file as csv.DictReader gives it: the
\* columns of the header, with one that the upload does not keep
CsvRow(i, av, prob) ==
    [e_id |-> StrLit(<<"E", Digits[i]>>),
     name |-> StrLit(<<"A","n", Digits[i]>>),
     skill |-> StrLit(<<"f","i","x">>),
     problem_occured |-> prob, availability |-> av,
     phone |-> StrLit(<<"5","5","5">>)]

\* The i-th employee record of employees.json
Employee(i, av, prob) == employee_data(CsvRow(i, av, prob))

\* The payload of a request for a ticket
Payload(loc, prob) ==
    [username |-> StrLit(<<"u">>), location |-> loc,
     contact |-> StrLit(<<"9">>), problem_occured |-> prob]

\* The j-th ticket of customers_data.json, created by the j-th request
Ticket(j, loc, prob) ==
    new_ticket(Payload(loc, prob),
               Str(<<84>> \o zero_pad(digits_of(<<j>>), 4)))

BoundedSeq(S, n) == UNION {[1..k -> S] : k \in 0..n}

EmployeeLists ==
    { [i \in 1..Len(f) |-> Employee(i, f[i][1], f[i][2])] :
        f \in BoundedSeq(AvailInputs \X EmpProblems, MaxEmps) }

TicketLists ==
    { [j \in 1..Len(f) |-> Ticket(j, f[j][1], f[j][2])] :
        f \in BoundedSeq(TicketLocations \X TicketProblems, MaxTickets) }

RouteKeys == {Str(LocA), Str(LocB), Str(LocC), Str(LocD), Str(LocX)}

DepotInputs == RouteKeys \cup {None}

\* No request received yet, no response sent yet
NoRequest == [endpoint |-> "none", json_ok |-> TRUE, e_id |-> None,
              name |-> None, depot |-> None]

NoResponse == [status |-> 0, error |-> "", e_id |-> None, name |-> None,
               route |-> None, distance_km |-> None, map_html |-> None]

\* The geocache candidate files are not looked at
FilesUnread == candidates = <<>>

\* The handler of an endpoint has loaded nothing
NoData == [customers |-> <<>>, employees |-> <<>>]

\* A thread of upload_employees between two requests
IdleUpload(status) ==
    [pc |-> "idle", employees |-> <<>>, fd |-> "closed", status |-> status]

\* No upload is in progress, employees.json is not looked at as a file
NoUploads ==
    /\ data = NoData
    /\ uploads = <<>>
    /\ disk = [json |-> NoFile, tmp |-> NoFile]

\* No request for a ticket is in progress
NoTicketRequests == file_lock = 0 /\ threads = <<>>

----------------------------------------------------------------------------
(* Specification of assign_locations as a function of its two inputs *)

InitAssign ==
    /\ GEOCACHE = GeocacheFile
    /\ employees \in EmployeeLists
    /\ customers \in TicketLists
    /\ assignments = <<>>
    /\ locations = <<>>
    /\ depot = None
    /\ route = <<>>
    /\ distance = 0
    /\ request = NoRequest
    /\ response = NoResponse
    /\ pc = "input"
    /\ FilesUnread
    /\ NoTicketRequests
    /\ NoUploads

CallAssign ==
    /\ pc = "input"
    /\ assignments' = assign_locations(employees, customers)
    /\ pc' = "assigned"
    /\ UNCHANGED <<candidates, file_lock, threads, data, uploads, disk>>
    /\ UNCHANGED <<GEOCACHE, employees, customers, locations, depot, route,
                   distance, request, response>>

NextAssign == CallAssign

SpecAssign == InitAssign /\ [][NextAssign]_vars

----------------------------------------------------------------------------
(* Specification of greedy_route_from_coords as a function of its inputs *)

InitRoute ==
    /\ GEOCACHE \in {GeocacheFile, UnevenGeocache, DatelineGeocache,
                     EmptyGeocache}
    /\ employees = <<>>
    /\ customers = <<>>
    /\ assignments = <<>>
    /\ locations \in BoundedSeq(RouteKeys, MaxLocs)
    /\ depot \in DepotInputs
    /\ route = <<>>
    /\ distance = 0
    /\ request = NoRequest
    /\ response = NoResponse
    /\ pc = "input"
    /\ FilesUnread
    /\ NoTicketRequests
    /\ NoUploads

CallRoute ==
    /\ pc = "input"
    /\ LET r == greedy_route_from_coords(GEOCACHE, locations, depot) IN
         IF r = IndexError
         THEN route' = IndexError /\ UNCHANGED distance
         ELSE route' = r.route /\ distance' = r.distance
    /\ pc' = "routed"
    /\ UNCHANGED <<candidates, file_lock, threads, data, uploads, disk>>
    /\ UNCHANGED <<GEOCACHE, employees, customers, assignments, locations,
                   depot, request, response>>

NextRoute == CallRoute

SpecRoute == InitRoute /\ [][NextRoute]_vars

----------------------------------------------------------------------------
(* generate_route_map_html and the three endpoints *)

\* The rendered map: the HTML text is opaque, its content is the stops drawn
Html(route_coords) == [t |-> "html", s |-> route_coords]

\* A key the JSON response does not carry
Absent == [t |-> "absent", s |-> <<>>]

\* coord = GEOCACHE.get(loc); if coord: the stop has an array that is not empty
has_coord(G, loc) == InGeocache(G, loc) /\ G[loc.s] # <<>>

\* float(coord[1]) raises for a stop of the route: its array has one element
route_coords_raises(G, rt) ==
    \E i \in 1..Len(rt) : has_coord(G, rt[i]) /\ Len(G[rt[i].s]) < 2

\* The loop over the stops, none of which raises
RECURSIVE route_coords_loop(_, _)
route_coords_loop(G, rt) ==
    IF rt = <<>> THEN <<>>
    ELSE IF has_coord(G, Head(rt))
         THEN <<coord_of(G, Head(rt))>> \o route_coords_loop(G, Tail(rt))
         ELSE route_coords_loop(G, Tail(rt))

\* route_coords: the coordinates of the stops of the route that have some in
\* the geocache, in route order, or the exception raised
route_coords_of(G, rt) ==
    IF route_coords_raises(G, rt) THEN IndexError
    ELSE route_coords_loop(G, rt)

\* generate_route_map_html(emp_name, route): None when no stop has
\* coordinates
generate_route_map_html(G, emp_name, rt) ==
    LET route_coords == route_coords_of(G, rt) IN
    IF route_coords_raises(G, rt) THEN IndexError
    ELSE IF route_coords = <<>> THEN None
    ELSE Html(route_coords)

\* jsonify({'error': ...}), status
ErrorResponse(status, error) ==
    [status |-> status, error |-> error, e_id |-> Absent, name |-> Absent,
     route |-> Absent, distance_km |-> Absent, map_html |-> Absent]

\* jsonify({...}) with status 200
OkResponse(e_id, name, rt, dist, map_html) ==
    [status |-> 200, error |-> "", e_id |-> e_id, name |-> name,
     route |-> rt, distance_km |-> dist, map_html |-> map_html]

\* next((a for a in assignments if <match>), None)
RECURSIVE first_match(_, _, _)
first_match(asg, by_id, key) ==
    IF asg = <<>> THEN None
    ELSE LET a == Head(asg) IN
         IF (by_id /\ py_str(a.e_id) = py_str(key))
            \/ (~by_id /\ lower(strip(py_str(a.name)))
                            = lower(strip(py_str(key))))
         THEN a
         ELSE first_match(Tail(asg), by_id, key)

\* The lookup of the requested employee among the assignments: by e_id when
\* the request has one, else by name; "bad request" when it has neither.
find_assignment(asg, req) ==
    IF py_truthy(req.e_id) THEN first_match(asg, TRUE, req.e_id)
    ELSE IF py_truthy(req.name) THEN first_match(asg, FALSE, req.name)
    ELSE Absent

\* locs_with_coords = [loc for loc in locations if loc in GEOCACHE]
locs_with_coords(G, locs) == SelectSeq(locs, LAMBDA loc : InGeocache(G, loc))

NotFound == ErrorResponse(404, "Employee not found or no assigned locations")

\* The response to a body that request.get_json(force=True) cannot read
InvalidJson == ErrorResponse(400, "Invalid JSON body")

\* The response to a request whose handler raises
InternalServerError == ErrorResponse(500, "Internal Server Error")

\* POST /assign_locations
assign_locations_endpoint(G, emps, custs, req) ==
    IF ~req.json_ok THEN InvalidJson
    ELSE IF emps = <<>> THEN ErrorResponse(404, "No employee data found")
    ELSE IF custs = <<>> THEN ErrorResponse(404, "No customer data found")
    ELSE LET emp == find_assignment(assign_locations(emps, custs), req) IN
         IF emp = Absent
         THEN ErrorResponse(400, "Provide e_id or name in JSON body")
         ELSE IF emp = None THEN NotFound
         ELSE LET r == greedy_route_from_coords(G,
                          locs_with_coords(G, emp.assigned_locations),
                          req.depot)
                  map_html == generate_route_map_html(G, emp.name, r.route)
              IN  IF r = IndexError \/ map_html = IndexError
                  THEN InternalServerError
                  ELSE OkResponse(emp.e_id, emp.name, r.route, r.distance,
                                  map_html)

\* optimized_route answering an empty route with the not-found response
optimized_route_mut(G, emps, custs, req) ==
    IF ~req.json_ok THEN InvalidJson
    ELSE LET emp == find_assignment(assign_locations(emps, custs), req) IN
         IF emp = Absent
         THEN ErrorResponse(400, "Provide e_id or name in JSON body")
         ELSE IF emp = None THEN NotFound
         ELSE LET r == greedy_route_from_coords(G,
                          locs_with_coords(G, emp.assigned_locations),
                          req.depot)
              IN  IF r = IndexError THEN InternalServerError
                  ELSE IF r.route = <<>> THEN NotFound
                  ELSE OkResponse(emp.e_id, emp.name, r.route, r.distance,
                                  Absent)

\* POST /optimized_route
optimized_route(G, emps, custs, req) ==
    IF ~req.json_ok THEN InvalidJson
    ELSE LET emp == find_assignment(assign_locations(emps, custs), req) IN
         IF emp = Absent
         THEN ErrorResponse(400, "Provide e_id or name in JSON body")
         ELSE IF emp = None THEN NotFound
         ELSE LET r == greedy_route_from_coords(G,
                          locs_with_coords(G, emp.assigned_locations),
                          req.depot)
              IN  IF r = IndexError THEN InternalServerError
                  ELSE OkResponse(emp.e_id, emp.name, r.route, r.distance,
                                  Absent)

\* POST /optimized_map
optimized_map(G, emps, custs, req) ==
    IF ~req.json_ok THEN InvalidJson
    ELSE LET emp == find_assignment(assign_locations(emps, custs), req) IN
         IF emp = Absent
         THEN ErrorResponse(400, "Provide e_id or name in JSON body")
         ELSE IF emp = None THEN NotFound
         ELSE LET r == greedy_route_from_coords(G,
                          locs_with_coords(G, emp.assigned_locations),
                          req.depot)
                  map_html == generate_route_map_html(G, emp.name, r.route)
              IN  IF r = IndexError \/ map_html = IndexError
                  THEN InternalServerError
                  ELSE IF map_html = None
                  THEN ErrorResponse(500,
                          "Failed to generate map (no coordinates)")
                  ELSE OkResponse(emp.e_id, emp.name, Absent, r.distance,
                                  map_html)

----------------------------------------------------------------------------
(* Specification of the service: the data files and the geocache are read  *)
(* as they are, each request is answered by its endpoint, while uploads    *)
(* and requests for a ticket write the data files.  Spec follows one       *)
(* upload at a time over all the requests of the model, SpecUploads the    *)
(* uploads of MaxUploads threads over a few requests.                      *)

Yes == StrLit(<<" ","Y","E","S"," ">>)

No == StrLit(<<"N","o">>)

\* The rows of the employees files and of the uploaded CSV files, as pairs of
\* availability and problem category
ServiceRows ==
    { <<>>, <<<<Yes, Leak>>>>, <<<<No, Leak>>>>, <<<<Yes, Wifi>>>>,
      <<<<No, Wifi>>, <<Yes, Leak>>>> }

ServiceEmployeeLists ==
    { [i \in 1..Len(f) |-> Employee(i, f[i][1], f[i][2])] :
        f \in ServiceRows }

\* The tickets of the service are leaks, at a location of the geocache or
\* at one outside it
ServiceTicketLists ==
    { [j \in 1..Len(f) |-> Ticket(j, f[j], Leak)] :
        f \in BoundedSeq(TicketLocations, MaxTickets) }

RequestIds == {None, StrLit(<<"E","1">>), StrLit(<<"E","9">>)}

RequestNames ==
    {None, StrLit(<<" ","A","N","1"," ">>), StrLit(<<"A","n","2">>)}

\* The requests: a body that is not JSON, the bodies with an e_id, a name,
\* both or none, and one with a depot
Requests ==
    [json_ok : {TRUE}, e_id : RequestIds, name : RequestNames,
     depot : {None}]
    \cup {[json_ok |-> TRUE, e_id |-> StrLit(<<"E","1">>), name |-> None,
           depot |-> Str(LocA)],
          [json_ok |-> FALSE, e_id |-> None, name |-> None, depot |-> None]}

\* The files of the directory of employees.json when the file holds emps
\* and no upload is in progress
Disk(emps) ==
    [json |-> [exists |-> TRUE, valid |-> TRUE, rows |-> emps,
               size |-> json_size(emps)],
     tmp |-> NoFile]

Init ==
    /\ GEOCACHE \in {GeocacheFile, OneElementGeocache}
    /\ employees \in ServiceEmployeeLists
    /\ customers \in ServiceTicketLists
    /\ assignments = <<>>
    /\ locations = <<>>
    /\ depot = None
    /\ route = <<>>
    /\ distance = 0
    /\ request = NoRequest
    /\ response = NoResponse
    /\ pc = "idle"
    /\ FilesUnread
    /\ NoTicketRequests
    /\ data = NoData
    /\ uploads = [u \in {1} |-> IdleUpload(0)]
    /\ disk = Disk(employees)

\* The data files change until the request of the behaviour is answered
Serving == pc \in {"idle", "loading"}

\* The handler of an endpoint from request.get_json() to the read of the
\* customers file in load_json_candidates: a body that is not JSON is
\* answered at once
Receive(endpoint, req) ==
    /\ pc = "idle"
    /\ request' = [endpoint |-> endpoint, json_ok |-> req.json_ok,
                   e_id |-> req.e_id, name |-> req.name, depot |-> req.depot]
    /\ IF ~req.json_ok
       THEN /\ response' = InvalidJson
            /\ pc' = "responded"
            /\ UNCHANGED data
       ELSE /\ data' = [data EXCEPT !.customers = customers]
            /\ pc' = "loading"
            /\ UNCHANGED response
    /\ UNCHANGED <<candidates, file_lock, threads, uploads, disk>>
    /\ UNCHANGED <<GEOCACHE, employees, customers, assignments, locations,
                   depot, route, distance>>

\* The handler of an endpoint from the read of the employees file in
\* load_json_candidates, after the customers file, to its response
Respond(endpoint, resp) ==
    /\ pc = "loading"
    /\ request.endpoint = endpoint
    /\ data' = [data EXCEPT !.employees = read_employees(disk.json)]
    /\ response' = resp
    /\ pc' = "responded"
    /\ UNCHANGED <<candidates, file_lock, threads, uploads, disk>>
    /\ UNCHANGED <<GEOCACHE, employees, customers, assignments, locations,
                   depot, route, distance, request>>

PostAssignLocations(reqs) ==
    \E req \in reqs :
      Receive("/assign_locations", req)

AnswerAssignLocations ==
    Respond("/assign_locations",
            assign_locations_endpoint(GEOCACHE, read_employees(disk.json),
                                      data.customers, request))

PostOptimizedRoute(reqs) ==
    \E req \in reqs :
      Receive("/optimized_route", req)

AnswerOptimizedRoute ==
    Respond("/optimized_route",
            optimized_route(GEOCACHE, read_employees(disk.json),
                            data.customers, request))

PostOptimizedMap(reqs) ==
    \E req \in reqs :
      Receive("/optimized_map", req)

AnswerOptimizedMap ==
    Respond("/optimized_map",
            optimized_map(GEOCACHE, read_employees(disk.json),
                          data.customers, request))

\* The name of a file thread u receives: it holds the number of the thread,
\* the CSV files of two uploads in progress are two files of the folder
UploadName(u, ext) == Text(<<"e", Digits[u]>> \o ext)

\* An upload: whether the request has a file part, the name of the file and
\* its extension, whether file.save can write it, the rows csv.DictReader
\* gives
Upload(filename, ext, readable, rows) ==
    [has_file |-> TRUE, filename |-> filename, ext |-> ext,
     readable |-> readable, rows |-> rows]

\* The uploads that are not stored: no file part, a file without a name, a
\* file that is not a CSV file, one that file.save cannot write
FailingUploads(u) ==
    { [has_file |-> FALSE, filename |-> <<>>, ext |-> <<>>,
       readable |-> FALSE, rows |-> <<>>],
      Upload(<<>>, <<>>, TRUE, <<>>),
      Upload(UploadName(u, <<".","t","x","t">>), Text(<<".","t","x","t">>),
             TRUE, <<>>),
      Upload(UploadName(u, <<".","c","s","v">>), Text(<<".","c","s","v">>),
             FALSE, <<>>) }

\* The CSV file of the rows f
CsvUpload(u, f) ==
    Upload(UploadName(u, <<".","C","S","V">>), Text(<<".","C","S","V">>),
           TRUE, [i \in 1..Len(f) |-> CsvRow(i, f[i][1], f[i][2])])

Uploads(u) == FailingUploads(u) \cup {CsvUpload(u, f) : f \in ServiceRows}

\* upload_employees up to the list of employees: the checks of the request,
\* file.save and the rows of the CSV file; a request it rejects is answered
\* 400, an exception 500, and the CSV file is removed
UploadReceive(u, files) ==
    /\ Serving
    /\ uploads[u].pc = "idle"
    /\ \E upload \in files :
         uploads' = [uploads EXCEPT ![u] =
            IF upload_rejected(upload) THEN IdleUpload(400)
            ELSE IF ~upload.readable THEN IdleUpload(500)
            ELSE [pc |-> "open",
                  employees |-> [i \in 1..Len(upload.rows) |->
                                   employee_data(upload.rows[i])],
                  fd |-> "closed", status |-> 0]]
    /\ UNCHANGED <<candidates, file_lock, threads, data, disk>>
    /\ UNCHANGED <<GEOCACHE, employees, customers, assignments, locations,
                   depot, route, distance, request, response, pc>>

\* open(tmp_json, 'w'): employees.json.tmp is created, or truncated when an
\* upload has left it
UploadOpen(u) ==
    /\ Serving
    /\ uploads[u].pc = "open"
    /\ disk' = [disk EXCEPT !.tmp = EmptyFile]
    /\ uploads' = [uploads EXCEPT ![u].pc = "dump", ![u].fd = "tmp"]
    /\ UNCHANGED <<candidates, file_lock, threads, data>>
    /\ UNCHANGED <<GEOCACHE, employees, customers, assignments, locations,
                   depot, route, distance, request, response, pc>>

\* json.dump and the end of the with block: the text is written to the file
\* the descriptor was opened on, which another upload may have renamed to
\* employees.json ("json") or replaced after that ("gone")
UploadDump(u) ==
    /\ Serving
    /\ uploads[u].pc = "dump"
    /\ disk' =
         IF uploads[u].fd = "tmp"
         THEN [disk EXCEPT !.tmp = write_file(@, uploads[u].employees)]
         ELSE IF uploads[u].fd = "json"
         THEN [disk EXCEPT !.json = write_file(@, uploads[u].employees)]
         ELSE disk
    /\ employees' = read_employees(disk'.json)
    /\ uploads' = [uploads EXCEPT ![u].pc = "replace", ![u].fd = "closed",
                                  ![u].employees = <<>>]
    /\ UNCHANGED <<candidates, file_lock, threads, data>>
    /\ UNCHANGED <<GEOCACHE, customers, assignments, locations,
                   depot, route, distance, request, response, pc>>

\* os.replace(tmp_json, JSON_FILE) and the response: 200, or 500 when
\* another upload has renamed employees.json.tmp (FileNotFoundError)
UploadReplace(u) ==
    /\ Serving
    /\ uploads[u].pc = "replace"
    /\ IF disk.tmp.exists
       THEN /\ disk' = [json |-> disk.tmp, tmp |-> NoFile]
            /\ uploads' =
                 [v \in DOMAIN uploads |->
                    IF v = u THEN IdleUpload(200)
                    ELSE [uploads[v] EXCEPT !.fd =
                            IF @ = "tmp" THEN "json"
                            ELSE IF @ = "json" THEN "gone" ELSE @]]
       ELSE /\ uploads' = [uploads EXCEPT ![u] = IdleUpload(500)]
            /\ UNCHANGED disk
    /\ employees' = read_employees(disk'.json)
    /\ UNCHANGED <<candidates, file_lock, threads, data>>
    /\ UNCHANGED <<GEOCACHE, customers, assignments, locations,
                   depot, route, distance, request, response, pc>>

\* The payloads of the requests for a ticket
ServicePayloads ==
    {None}
    \cup { Payload(loc, Leak) : loc \in TicketLocations \cup {Str(<<>>)} }

\* POST /customers of customers_api.py adds a ticket to customers_data.json
\* by os.replace; the requests for a ticket are serialized by file_lock
PostCustomers(payloads) ==
    /\ Serving
    /\ Len(customers) < MaxTickets
    /\ \E payload \in payloads, writable \in BOOLEAN :
         customers' =
           create_customer_ticket(payload, customers, writable).customers
    /\ UNCHANGED <<candidates, file_lock, threads, data, uploads, disk>>
    /\ UNCHANGED <<GEOCACHE, employees, assignments, locations, depot,
                   route, distance, request, response, pc>>

Next ==
    \/ PostAssignLocations(Requests)
    \/ AnswerAssignLocations
    \/ PostOptimizedRoute(Requests)
    \/ AnswerOptimizedRoute
    \/ PostOptimizedMap(Requests)
    \/ AnswerOptimizedMap
    \/ \E u \in DOMAIN uploads : UploadReceive(u, Uploads(u))
    \/ \E u \in DOMAIN uploads : UploadOpen(u)
    \/ \E u \in DOMAIN uploads : UploadDump(u)
    \/ \E u \in DOMAIN uploads : UploadReplace(u)
    \/ PostCustomers(ServicePayloads)

Spec == Init /\ [][Next]_vars

\* The requests, the uploads and the payloads of SpecUploads
UploadRequests ==
    { r \in Requests : r.name = None /\ r.depot = None
                         /\ r.e_id \in {None, StrLit(<<"E","1">>)} }

UploadRows == { <<<<Yes, Leak>>>>, <<<<Yes, Leak>>, <<No, Wifi>>>> }

\* No file part, a file that file.save cannot write, and CSV files
UploadFiles(u) ==
    { f \in FailingUploads(u) : ~f.readable }
    \cup {CsvUpload(u, f) : f \in UploadRows}

UploadPayloads == {Payload(Str(LocA), Leak), Payload(Str(LocX), Leak)}

InitUploads ==
    /\ GEOCACHE = GeocacheFile
    /\ employees \in {<<>>, <<Employee(1, Yes, Wifi)>>}
    /\ customers \in {<<>>, <<Ticket(1, Str(LocA), Wifi)>>}
    /\ assignments = <<>>
    /\ locations = <<>>
    /\ depot = None
    /\ route = <<>>
    /\ distance = 0
    /\ request = NoRequest
    /\ response = NoResponse
    /\ pc = "idle"
    /\ FilesUnread
    /\ NoTicketRequests
    /\ data = NoData
    /\ uploads = [u \in 1..MaxUploads |-> IdleUpload(0)]
    /\ disk = Disk(employees)

NextUploads ==
    \/ PostAssignLocations(UploadRequests)
    \/ AnswerAssignLocations
    \/ PostOptimizedRoute(UploadRequests)
    \/ AnswerOptimizedRoute
    \/ PostOptimizedMap(UploadRequests)
    \/ AnswerOptimizedMap
    \/ \E u \in DOMAIN uploads : UploadReceive(u, UploadFiles(u))
    \/ \E u \in DOMAIN uploads : UploadOpen(u)
    \/ \E u \in DOMAIN uploads : UploadDump(u)
    \/ \E u \in DOMAIN uploads : UploadReplace(u)
    \/ PostCustomers(UploadPayloads)

SpecUploads == InitUploads /\ [][NextUploads]_vars

----------------------------------------------------------------------------
(* Vocabulary of the claims *)

\* An availability that normalizes (trimmed, lower-cased) to one of the five
\* truthy tokens yes, true, 1, available, y
SpecTruthy(av) == lower(strip(py_str(av))) \in true_set

\* Two problem categories that are equal case-insensitively and trimmed
SpecCategoryMatch(p, q) ==
    /\ p.t = "str" /\ q.t = "str"
    /\ lower(strip(p.s)) = lower(strip(q.s))

Range(q) == {q[i] : i \in 1..Len(q)}

\* Number of places of q that hold x
Count(x, q) == Cardinality({i \in 1..Len(q) : q[i] = x})

AssignmentsOf(emp) ==
    {k \in 1..Len(assignments) : assignments[k].e_id = emp.e_id}

AllResolve == \A i \in 1..Len(locations) : InGeocache(GEOCACHE, locations[i])

NoDuplicates(q) == \A i, j \in 1..Len(q) : q[i] = q[j] => i = j

----------------------------------------------------------------------------
(* Claims about assign_locations and greedy_route_from_coords *)

\* C1: every Assignment returned by assign_locations belongs to an employee
\* of the input whose availability normalizes to a truthy token, and every
\* location in it comes from a ticket whose problem category matches that
\* employee's; an employee with availability "No" never appears.
C1_AssignmentsSound ==
    pc = "assigned" =>
      /\ \A k \in 1..Len(assignments) :
           \E i \in 1..Len(employees) :
             /\ employees[i].e_id = assignments[k].e_id
             /\ employees[i].name = assignments[k].name
             /\ SpecTruthy(employees[i].availability)
             /\ \A m \in 1..Len(assignments[k].assigned_locations) :
                  \E j \in 1..Len(customers) :
                    /\ customers[j].location =
                         assignments[k].assigned_locations[m]
                    /\ SpecCategoryMatch(customers[j].problem_occured,
                                         employees[i].problem_occured)
      /\ \A i \in 1..Len(employees) :
           normalize_text(employees[i].availability) = Text(<<"n","o">>)
             => AssignmentsOf(employees[i]) = {}

\* An unavailable employee with a ticket in its category is left out while
\* another employee is assigned.
C1_Witness ==
    /\ pc = "assigned"
    /\ Len(assignments) = 1
    /\ \E i \in 1..Len(employees) :
         /\ employees[i].availability = StrLit(<<"N","o">>)
         /\ \E j \in 1..Len(customers) :
              customers[j].problem_occured = employees[i].problem_occured

\* C2: the route returned by greedy_route_from_coords holds only keys of the
\* geocache and holds no key twice, for any location list (with duplicates
\* and unknown keys) and any depot.
C2_RouteInGeocacheNoRevisit ==
    pc = "routed" =>
      /\ \A i \in 1..Len(route) : InGeocache(GEOCACHE, route[i])
      /\ NoDuplicates(route)

\* A list with a duplicate and an unknown key, and a depot outside the
\* geocache, gives a route of two stops.
C2_Witness ==
    /\ pc = "routed"
    /\ ~NoDuplicates(locations)
    /\ ~AllResolve
    /\ depot # None /\ ~InGeocache(GEOCACHE, depot)
    /\ Len(route) = 2

\* C3: for pairwise distinct locations that all resolve in the geocache the
\* route is a permutation of the list: the same length, each key of the list
\* exactly once and nothing else.
C3_RoutePermutation ==
    (pc = "routed" /\ AllResolve /\ NoDuplicates(locations)) =>
      /\ Len(route) = Len(locations)
      /\ \A i \in 1..Len(locations) : Count(locations[i], route) = 1
      /\ Range(route) \subseteq Range(locations)

\* Four distinct resolvable locations are routed in an order other than the
\* input order.
C3_Witness ==
    /\ pc = "routed" /\ AllResolve /\ NoDuplicates(locations)
    /\ Len(locations) = 4
    /\ route # locations

\* C4 as stated: whenever every location passed resolves, the route is as long
\* as the list passed in and each passed location appears exactly once, also
\* for lists that repeat a location.
C4_Original ==
    (pc = "routed" /\ AllResolve) =>
      /\ Len(route) = Len(locations)
      /\ \A i \in 1..Len(locations) : Count(locations[i], route) = 1

\* C4 amended: whenever every location passed resolves, the route is as long
\* as the number of distinct locations passed in, and each passed location
\* appears in the route exactly once.
C4_RouteCoversDistinct ==
    (pc = "routed" /\ AllResolve) =>
      /\ Len(route) = Cardinality(Range(locations))
      /\ \A i \in 1..Len(locations) : Count(locations[i], route) = 1

\* A resolvable list that repeats a location gives a shorter route.
C4_Witness ==
    /\ pc = "routed" /\ AllResolve
    /\ ~NoDuplicates(locations)
    /\ Len(route) >= 2
    /\ Len(route) < Len(locations)

\* C5: an employee whose category has at least one ticket receives an
\* Assignment exactly when its availability, trimmed and lower-cased, is one
\* of yes, true, 1, available, y.
C5_TruthyTokens ==
    pc = "assigned" =>
      \A i \in 1..Len(employees) :
        (\E j \in 1..Len(customers) :
            customers[j].problem_occured = employees[i].problem_occured)
          => (AssignmentsOf(employees[i]) # {}
                <=> SpecTruthy(employees[i].availability))

\* C6: an available employee whose category differs from a ticket's only in
\* letter case or surrounding whitespace is assigned that ticket's location.
C6_CategoryCaseInsensitive ==
    pc = "assigned" =>
      \A i \in 1..Len(employees) : \A j \in 1..Len(customers) :
        (/\ is_available(employees[i])
         /\ SpecCategoryMatch(customers[j].problem_occured,
                              employees[i].problem_occured))
          => \E k \in AssignmentsOf(employees[i]) :
               InSeq(customers[j].location, assignments[k].assigned_locations)

\* An employee that is available and has a ticket in its problem category
Qualifying(emp) ==
    /\ SpecTruthy(emp.availability)
    /\ \E j \in 1..Len(customers) :
         SpecCategoryMatch(customers[j].problem_occured, emp.problem_occured)

\* C7: assign_locations returns one Assignment for each qualifying employee
\* and none for any other, in the order of the employee list.
C7_OnePerQualifyingInOrder ==
    pc = "assigned" =>
      LET q == SelectSeq(employees, Qualifying) IN
        /\ Len(assignments) = Len(q)
        /\ \A k \in 1..Len(q) : assignments[k].e_id = q[k].e_id

\* The locations of the tickets in the category of an Assignment, in ticket
\* order, one per ticket
TicketLocationsOf(prob) ==
    LET InCategory(c) == SpecCategoryMatch(c.problem_occured, prob)
        sel == SelectSeq(customers, InCategory)
    IN  [m \in 1..Len(sel) |-> sel[m].location]

\* C8: the assigned_locations of each Assignment is the sequence of the
\* locations of all tickets in the employee's category, in ticket order, one
\* entry per ticket, whether or not the location is in the geocache.
C8_AssignedLocationsExact ==
    pc = "assigned" =>
      \A k \in 1..Len(assignments) :
        assignments[k].assigned_locations =
          TicketLocationsOf(assignments[k].problem_occured)

----------------------------------------------------------------------------
(* Claims about the endpoints *)

\* The request names an employee, by e_id or by name
RequestNamesEmployee ==
    request.json_ok /\ (py_truthy(request.e_id) \/ py_truthy(request.name))

\* The Assignments computed from the data the handler loaded
CurrentAssignments == assign_locations(data.employees, data.customers)

\* The places in CurrentAssignments of the Assignments of the requested
\* employee: the e_id decides when the request has one, else the name
RequestedAssignments ==
    {k \in 1..Len(CurrentAssignments) :
        IF py_truthy(request.e_id)
        THEN CurrentAssignments[k].e_id = request.e_id
        ELSE lower(strip(py_str(CurrentAssignments[k].name)))
               = lower(strip(py_str(request.name)))}

\* The requested employee has an Assignment and none of its locations is in
\* the geocache
FoundWithoutResolvableLocation ==
    /\ RequestedAssignments # {}
    /\ \A k \in RequestedAssignments :
         \A m \in 1..Len(CurrentAssignments[k].assigned_locations) :
           ~InGeocache(GEOCACHE, CurrentAssignments[k].assigned_locations[m])

\* C9: in each endpoint a request for an employee in no Assignment gets the
\* not-found (404) response, and a request for an employee with an
\* Assignment but no location in the geocache gets a response that differs
\* from it.
C9_NotFoundDistinctFromEmptyRoute ==
    (pc = "responded" /\ RequestNamesEmployee) =>
      /\ RequestedAssignments = {} => response.status = 404
      /\ FoundWithoutResolvableLocation =>
           (response.status # 404 /\ response # NotFound)

\* /optimized_route answers a found employee without resolvable locations
\* with an empty route.
C9_Witness ==
    /\ pc = "responded" /\ RequestNamesEmployee
    /\ request.endpoint = "/optimized_route"
    /\ FoundWithoutResolvableLocation
    /\ response.status = 200 /\ response.route = <<>>

\* The endpoints that call generate_route_map_html
MapEndpoints == {"/assign_locations", "/optimized_map"}

\* C10: generate_route_map_html returns None when no stop of the route
\* resolves, and no endpoint that calls it answers with a success status
\* while the map artifact is missing.
C10_MissingArtifactIsFailure ==
    (pc = "responded" /\ request.endpoint \in MapEndpoints) =>
      /\ \A k \in 1..Len(CurrentAssignments) :
           LET rt == CurrentAssignments[k].assigned_locations IN
             route_coords_of(GEOCACHE, rt) = <<>>
               => generate_route_map_html(GEOCACHE,
                     CurrentAssignments[k].name, rt) = None
      /\ response.status = 200 => response.map_html.t = "html"

----------------------------------------------------------------------------
(* Claims about the start, the order and the boundaries of the route *)

\* The locations of the list that the geocache resolves, in list order
ResolvableLocations ==
    SelectSeq(locations, LAMBDA loc : InGeocache(GEOCACHE, loc))

\* The first place of q that holds x
FirstIndex(x, q) ==
    CHOOSE i \in 1..Len(q) : q[i] = x /\ \A j \in 1..(i - 1) : q[j] # x

\* Distance between two keys of the geocache
KeyDistance(a, b) == haversine(GEOCACHE[a.s], GEOCACHE[b.s])

\* The resolvable locations not among the first k stops of the route
Unvisited(k) == Range(ResolvableLocations) \ {route[i] : i \in 1..k}

\* C12: on an empty location list the route is empty and the distance 0.0 for
\* any depot, and on a list of a single resolvable location the route holds
\* only that location and the distance is 0.0, for any depot.
C12_EmptyAndSingleRoute ==
    pc = "routed" =>
      /\ locations = <<>> => (route = <<>> /\ distance = 0)
      /\ (Len(locations) = 1 /\ AllResolve)
           => (route = locations /\ distance = 0)

\* A single resolvable location is routed with another resolvable depot.
C12_Witness ==
    /\ pc = "routed"
    /\ Len(locations) = 1 /\ AllResolve
    /\ InGeocache(GEOCACHE, depot) /\ depot # locations[1]
    /\ route = locations

\* C13: when some location resolves, the route starts at the depot if the
\* depot is one of the resolvable input locations, and otherwise at the first
\* resolvable location in input order.
C13_RouteStart ==
    (pc = "routed" /\ ResolvableLocations # <<>>) =>
      /\ route # <<>>
      /\ route[1] = IF InSeq(depot, ResolvableLocations) THEN depot
                    ELSE ResolvableLocations[1]

\* The route starts at a depot that is not the first location of the list.
C13_Witness ==
    /\ pc = "routed"
    /\ Len(ResolvableLocations) >= 2
    /\ InSeq(depot, ResolvableLocations)
    /\ depot # ResolvableLocations[1]
    /\ route[1] = depot

\* C14: every stop after the first is at minimum distance from the stop
\* before it among the locations not yet in the route, and among several at
\* that minimum it is the one that comes first in input order.
C14_GreedyNearestFirstMinimum ==
    pc = "routed" =>
      \A k \in 2..Len(route) :
        /\ route[k] \in Unvisited(k - 1)
        /\ \A u \in Unvisited(k - 1) :
             /\ ~float_lt(KeyDistance(route[k - 1], u),
                          KeyDistance(route[k - 1], route[k]))
             /\ KeyDistance(route[k - 1], route[k])
                  = KeyDistance(route[k - 1], u)
                  => FirstIndex(route[k], locations)
                       <= FirstIndex(u, locations)

\* Two unvisited locations are at the same minimum distance from a stop and
\* the one that is first in the list is taken, though it is not the first
\* of all locations.
C14_Witness ==
    /\ pc = "routed"
    /\ \E k \in 2..Len(route) : \E u \in Unvisited(k) :
         /\ KeyDistance(route[k - 1], route[k]) = KeyDistance(route[k - 1], u)
         /\ FirstIndex(route[k], locations) < FirstIndex(u, locations)
         /\ FirstIndex(route[k], locations) > 1

----------------------------------------------------------------------------
(* Loading of the geocache at startup *)

\* len(POSSIBLE_GEOCACHE)
NumCandidates == 3

\* A candidate file: whether os.path.exists(p) holds, whether open and
\* json.load succeed, and the value json.load returns
MissingFile == [exists |-> FALSE, parses |-> FALSE, value |-> EmptyGeocache]

UnparsableFile == [exists |-> TRUE, parses |-> FALSE, value |-> EmptyGeocache]

JsonFile(v) == [exists |-> TRUE, parses |-> TRUE, value |-> v]

\* A second well-formed geocache
OtherGeocache == (LocB :> <<1, 1>>)

CandidateFiles ==
    {MissingFile, UnparsableFile, JsonFile(GeocacheFile),
     JsonFile(OtherGeocache), JsonFile(EmptyGeocache),
     JsonFile(OneElementGeocache)}

\* The loop over POSSIBLE_GEOCACHE: the first candidate that exists and that
\* json.load reads ends the loop and becomes GEOCACHE; G is GEOCACHE so far.
RECURSIVE load_geocache(_, _)
load_geocache(files, G) ==
    IF files = <<>> THEN G
    ELSE LET f == Head(files) IN
         IF f.exists /\ f.parses THEN f.value
         ELSE load_geocache(Tail(files), G)

InitLoad ==
    /\ GEOCACHE = EmptyGeocache
    /\ candidates \in [1..NumCandidates -> CandidateFiles]
    /\ employees = <<>>
    /\ customers = <<>>
    /\ assignments = <<>>
    /\ locations = <<>>
    /\ depot = None
    /\ route = <<>>
    /\ distance = 0
    /\ request = NoRequest
    /\ response = NoResponse
    /\ pc = "start"
    /\ NoTicketRequests
    /\ NoUploads

LoadGeocache ==
    /\ pc = "start"
    /\ GEOCACHE' = load_geocache(candidates, GEOCACHE)
    /\ pc' = "loaded"
    /\ UNCHANGED <<candidates, file_lock, threads, data, uploads, disk>>
    /\ UNCHANGED <<employees, customers, assignments, locations, depot,
                   route, distance, request, response>>

\* The location lists of a routing call after startup
LoadedRouteInputs ==
    {<<>>, <<Str(LocA)>>, <<Str(LocB)>>, <<Str(LocB), Str(LocA)>>}

\* greedy_route_from_coords on the geocache as loaded
RouteLoaded ==
    /\ pc = "loaded"
    /\ \E locs \in LoadedRouteInputs :
         LET r == greedy_route_from_coords(GEOCACHE, locs, None) IN
           /\ locations' = locs
           /\ IF r = IndexError
              THEN route' = IndexError /\ UNCHANGED distance
              ELSE route' = r.route /\ distance' = r.distance
    /\ pc' = "called"
    /\ UNCHANGED <<candidates, file_lock, threads, data, uploads, disk>>
    /\ UNCHANGED <<GEOCACHE, employees, customers, assignments, depot,
                   request, response>>

NextLoad == LoadGeocache \/ RouteLoaded

SpecLoad == InitLoad /\ [][NextLoad]_vars

\* A mapping from location key to a 2-element array
WellFormedGeocache(v) == \A k \in DOMAIN v : Len(v[k]) = 2

\* The candidate exists and parses as a mapping from location key to a
\* 2-element numeric array
UsableCandidate(f) == f.exists /\ f.parses /\ WellFormedGeocache(f.value)

\* C15: at startup the Geocache becomes the contents of the first candidate,
\* in list order, that exists and parses as a mapping from location key to a
\* 2-element numeric array; other candidates are skipped, and when all are
\* skipped the Geocache is empty.
C15_FirstUsableCandidateLoaded ==
    pc = "loaded" =>
      IF \E i \in 1..NumCandidates : UsableCandidate(candidates[i])
      THEN LET first == CHOOSE i \in 1..NumCandidates :
                          /\ UsableCandidate(candidates[i])
                          /\ \A j \in 1..(i - 1) :
                               ~UsableCandidate(candidates[j])
           IN  GEOCACHE = candidates[first].value
      ELSE GEOCACHE = EmptyGeocache

----------------------------------------------------------------------------
(* Specification of the creation of tickets by concurrent requests *)

GoodPayload == Payload(Str(LocA), Leak)

NoLocationPayload == [GoodPayload EXCEPT !.location = Str(<<>>)]

\* request.get_json(): None for a missing body
Payloads == {None, GoodPayload, NoLocationPayload}

StoredNumbers ==
    { StrLit(<<"T","0","0","0","1">>), StrLit(<<"T","2">>),
      StrLit(<<"T","0","0","0","2">>), StrLit(<<"A","5">>) }

\* "T" and the digit d, n times
LongNumber(d, n) == Str(<<84>> \o [i \in 1..n |-> 48 + d])

\* Stores with a number at the limit of digits: the greatest number that
\* int() converts, whose successor cannot be written, and a number that
\* int() rejects
LongStores ==
    { <<LongNumber(9, MaxStrDigits)>>,
      <<StrLit(<<"T","2">>), LongNumber(1, MaxStrDigits + 1)>>,
      <<LongNumber(8, MaxStrDigits)>> }

\* The ticket stores with pairwise distinct ticket numbers
InitialStores ==
    { [i \in 1..Len(f) |-> new_ticket(GoodPayload, f[i])] :
        f \in { g \in BoundedSeq(StoredNumbers, MaxStored) :
                  \A i, j \in 1..Len(g) : g[i] = g[j] => i = j }
             \cup LongStores }

Threads == 1..MaxRequests

InitTickets ==
    /\ GEOCACHE = GeocacheFile
    /\ employees = <<>>
    /\ customers \in InitialStores
    /\ assignments = <<>>
    /\ locations = <<>>
    /\ depot = None
    /\ route = <<>>
    /\ distance = 0
    /\ request = NoRequest
    /\ response = NoResponse
    /\ pc = "serving"
    /\ FilesUnread
    /\ file_lock = 0
    /\ threads \in [Threads -> [pc : {"start"}, payload : Payloads,
                                customers : {<<>>}, ticket_number : {None},
                                status : {0}]]
    /\ NoUploads

ServiceUnchanged ==
    UNCHANGED <<GEOCACHE, employees, assignments, locations, depot, route,
                distance, request, response, pc, candidates, data, uploads,
                disk>>

\* payload = request.get_json(); the two 400 responses
Validate(p) ==
    /\ threads[p].pc = "start"
    /\ LET payload == threads[p].payload IN
         IF payload = None \/ validate_customer_payload(payload) # <<>>
         THEN threads' = [threads EXCEPT ![p].pc = "done", ![p].status = 400]
         ELSE threads' = [threads EXCEPT ![p].pc = "acquire"]
    /\ UNCHANGED <<customers, file_lock>>
    /\ ServiceUnchanged

\* with file_lock:
Acquire(p) ==
    /\ threads[p].pc = "acquire"
    /\ can_acquire(file_lock)
    /\ file_lock' = p
    /\ threads' = [threads EXCEPT ![p].pc = "read"]
    /\ UNCHANGED customers
    /\ ServiceUnchanged

\* data = _read_customers_file(); customers = data.get('customers', [])
ReadStore(p) ==
    /\ threads[p].pc = "read"
    /\ threads' = [threads EXCEPT ![p].pc = "generate",
                                  ![p].customers = customers]
    /\ UNCHANGED <<customers, file_lock>>
    /\ ServiceUnchanged

\* ticket_number = _generate_next_ticket_number(customers);
\* customers.append(new_ticket); an exception of the former leaves the with
\* block and fails the request
GenerateTicket(p) ==
    /\ threads[p].pc = "generate"
    /\ LET tn == generate_next_ticket_number(threads[p].customers) IN
         IF tn = ValueError
         THEN threads' = [threads EXCEPT ![p].pc = "release",
                                         ![p].status = 500]
         ELSE threads' = [threads EXCEPT
                            ![p].pc = "write",
                            ![p].ticket_number = tn,
                            ![p].customers =
                                Append(@, new_ticket(threads[p].payload, tn))]
    /\ UNCHANGED <<customers, file_lock>>
    /\ ServiceUnchanged

\* _write_customers_file(data) replaces the file
WriteStore(p) ==
    /\ threads[p].pc = "write"
    /\ customers' = threads[p].customers
    /\ threads' = [threads EXCEPT ![p].pc = "release", ![p].status = 201]
    /\ UNCHANGED file_lock
    /\ ServiceUnchanged

\* _write_customers_file(data) raises: the 500 response
WriteFails(p) ==
    /\ threads[p].pc = "write"
    /\ threads' = [threads EXCEPT ![p].pc = "release", ![p].status = 500]
    /\ UNCHANGED <<customers, file_lock>>
    /\ ServiceUnchanged

\* The end of the with block
Release(p) ==
    /\ threads[p].pc = "release"
    /\ file_lock' = 0
    /\ threads' = [threads EXCEPT ![p].pc = "done"]
    /\ UNCHANGED customers
    /\ ServiceUnchanged

NextTickets ==
    \E p \in Threads :
      \/ Validate(p)
      \/ Acquire(p)
      \/ ReadStore(p)
      \/ GenerateTicket(p)
      \/ WriteStore(p)
      \/ WriteFails(p)
      \/ Release(p)

SpecTickets == InitTickets /\ [][NextTickets]_vars

\* The ticket numbers in the store, in store order
StoreNumbers == [i \in 1..Len(customers) |-> customers[i].ticket_number]

\* The threads between taking and releasing file_lock
InCriticalSection ==
    {p \in Threads : threads[p].pc \in {"read", "generate", "write", "release"}}

\* C11: from a store with pairwise distinct ticket numbers, under any
\* interleaving of create_customer_ticket requests the ticket numbers in the
\* store stay pairwise distinct, and the read, the choice of the next number
\* and the write-back of one request never overlap with those of another.
C11_TicketNumbersDistinct ==
    /\ NoDuplicates(StoreNumbers)
    /\ Cardinality(InCriticalSection) <= 1

\* Two requests have both created a ticket, with different numbers, in a store
\* that held two tickets before.
C11_Witness ==
    \E p, q \in Threads :
      /\ p # q
      /\ threads[p].pc = "done" /\ threads[p].status = 201
      /\ threads[q].pc = "done" /\ threads[q].status = 201
      /\ threads[p].ticket_number # threads[q].ticket_number
      /\ InSeq(threads[p].ticket_number, StoreNumbers)
      /\ InSeq(threads[q].ticket_number, StoreNumbers)
      /\ Len(customers) >= 4

====
